---- MODULE Spec2Model ----
(***************************************************************************)
(* Model of the UK Controller Pack updater (ukcp_updater/functions.py):    *)
(* the AIRAC cycle calculator (class Airac) and the change extraction loop *)
(* of Downloader.pull.  Strings are sequences of one-character strings, so *)
(* that formatting, parsing, splitting and regular-expression matching are *)
(* computed character by character as the Python code computes them.       *)
(***************************************************************************)
EXTENDS Integers, Sequences, FiniteSets, TLC

(***************************************************************************)
(* Bounds of the model.                                                    *)
(***************************************************************************)
\* the clock runs from DaysBefore days before the base date ...
DaysBefore == 30
\* ... to MaxDays days after it (2023-06-01 is day 1611)
MaxDays == 1625

(***************************************************************************)
(* Characters and strings.                                                 *)
(***************************************************************************)
Digits == <<"0", "1", "2", "3", "4", "5", "6", "7", "8", "9">>

DigitSet == {Digits[i] : i \in DOMAIN Digits}

\* the numeric value of a decimal digit character
DigitVal(c) == (CHOOSE i \in DOMAIN Digits : Digits[i] = c) - 1

\* the character class [A-Za-z]
Alpha ==
    {"A", "B", "C", "D", "E", "F", "G", "H", "I", "J", "K", "L", "M",
     "N", "O", "P", "Q", "R", "S", "T", "U", "V", "W", "X", "Y", "Z",
     "a", "b", "c", "d", "e", "f", "g", "h", "i", "j", "k", "l", "m",
     "n", "o", "p", "q", "r", "s", "t", "u", "v", "w", "x", "y", "z"}

LowerLetters ==
    <<"a", "b", "c", "d", "e", "f", "g", "h", "i", "j", "k", "l", "m",
      "n", "o", "p", "q", "r", "s", "t", "u", "v", "w", "x", "y", "z">>

UpperLetters ==
    <<"A", "B", "C", "D", "E", "F", "G", "H", "I", "J", "K", "L", "M",
      "N", "O", "P", "Q", "R", "S", "T", "U", "V", "W", "X", "Y", "Z">>

\* str.upper()
Upper(s) ==
    [i \in DOMAIN s |->
        IF \E k \in DOMAIN LowerLetters : LowerLetters[k] = s[i]
          THEN UpperLetters[CHOOSE k \in DOMAIN LowerLetters : LowerLetters[k] = s[i]]
          ELSE s[i]]

\* the decimal digit character of n's digit at position 10^k
DigitAt(n, k) == Digits[((n \div k) % 10) + 1]

\* "%02d" and "%04d" as date.isoformat uses them
Pad2(n) == <<DigitAt(n, 10), DigitAt(n, 1)>>

Pad4(n) == <<DigitAt(n, 1000), DigitAt(n, 100), DigitAt(n, 10), DigitAt(n, 1)>>

\* int() of a string of decimal digits
RECURSIVE ToInt(_)
ToInt(s) ==
    IF s = <<>> THEN 0
    ELSE 10 * ToInt(SubSeq(s, 1, Len(s) - 1)) + DigitVal(s[Len(s)])

\* str.split(sep) for a one-character separator
RECURSIVE Split(_, _)
Split(s, sep) ==
    IF \A i \in DOMAIN s : s[i] # sep THEN <<s>>
    ELSE LET k == CHOOSE i \in DOMAIN s :
                      s[i] = sep /\ \A j \in 1..(i - 1) : s[j] # sep
         IN  <<SubSeq(s, 1, k - 1)>> \o Split(SubSeq(s, k + 1, Len(s)), sep)

\* s.startswith(p)
StartsWith(s, p) == Len(s) >= Len(p) /\ SubSeq(s, 1, Len(p)) = p

(***************************************************************************)
(* datetime.date: the proleptic Gregorian calendar.                        *)
(***************************************************************************)
Date(y, m, d) == [y |-> y, m |-> m, d |-> d]

IsLeap(y) == y % 4 = 0 /\ (y % 100 # 0 \/ y % 400 = 0)

DAYS_IN_MONTH == <<31, 28, 31, 30, 31, 30, 31, 31, 30, 31, 30, 31>>

DAYS_BEFORE_MONTH == <<0, 31, 59, 90, 120, 151, 181, 212, 243, 273, 304, 334>>

DaysInMonth(y, m) == IF m = 2 /\ IsLeap(y) THEN 29 ELSE DAYS_IN_MONTH[m]

DaysBeforeYear(y) ==
    (y - 1) * 365 + (y - 1) \div 4 - (y - 1) \div 100 + (y - 1) \div 400

DaysBeforeMonth(y, m) ==
    DAYS_BEFORE_MONTH[m] + (IF m > 2 /\ IsLeap(y) THEN 1 ELSE 0)

\* date.toordinal(): 0001-01-01 is day 1
ToOrdinal(dt) == DaysBeforeYear(dt.y) + DaysBeforeMonth(dt.y, dt.m) + dt.d

\* date.fromordinal(n)
FromOrdinal(ord) ==
    LET n0   == ord - 1
        n400 == n0 \div 146097
        r400 == n0 % 146097
        n100 == r400 \div 36524
        r100 == r400 % 36524
        n4   == r100 \div 1461
        r4   == r100 % 1461
        n1   == r4 \div 365
        n    == r4 % 365
        year == n400 * 400 + 1 + n100 * 100 + n4 * 4 + n1
    IN  IF n1 = 4 \/ n100 = 4 THEN Date(year - 1, 12, 31)
        ELSE LET leapyear == n1 = 3 /\ (n4 # 24 \/ n100 = 3)
                 month0   == (n + 50) \div 32
                 prec0    == DAYS_BEFORE_MONTH[month0]
                               + (IF month0 > 2 /\ leapyear THEN 1 ELSE 0)
                 month    == IF prec0 > n THEN month0 - 1 ELSE month0
                 prec     == IF prec0 > n
                               THEN prec0 - (DAYS_IN_MONTH[month]
                                      + (IF month = 2 /\ leapyear THEN 1 ELSE 0))
                               ELSE prec0
             IN  Date(year, month, n - prec + 1)

\* (a - b) / timedelta(days=1): the number of whole days from b to a
DaysBetween(a, b) == ToOrdinal(a) - ToOrdinal(b)

\* dt + timedelta(days=k)
PlusDays(dt, k) == FromOrdinal(ToOrdinal(dt) + k)

\* str(date): YYYY-MM-DD, zero padded
DateToStr(dt) == Pad4(dt.y) \o <<"-">> \o Pad2(dt.m) \o <<"-">> \o Pad2(dt.d)

\* a parser that checks the shape YYYY-MM-DD but not that the day exists
MutIsIsoFormatShapeOnly(s) ==
    /\ Len(s) = 10
    /\ s[5] = "-" /\ s[8] = "-"
    /\ \A i \in {1, 2, 3, 4, 6, 7, 9, 10} : s[i] \in DigitSet

\* the strings date.fromisoformat accepts: YYYY-MM-DD naming a real day
IsIsoFormat(s) ==
    /\ Len(s) = 10
    /\ s[5] = "-" /\ s[8] = "-"
    /\ \A i \in {1, 2, 3, 4, 6, 7, 9, 10} : s[i] \in DigitSet
    /\ LET y == ToInt(SubSeq(s, 1, 4))
           m == ToInt(SubSeq(s, 6, 7))
           d == ToInt(SubSeq(s, 9, 10))
       IN  y >= 1 /\ m \in 1..12 /\ d \in 1..DaysInMonth(y, m)

FromIsoFormat(s) ==
    Date(ToInt(SubSeq(s, 1, 4)), ToInt(SubSeq(s, 6, 7)), ToInt(SubSeq(s, 9, 10)))

\* the calendar day after dt and the one before it, as the system clock steps
NextDay(dt) ==
    IF dt.d < DaysInMonth(dt.y, dt.m) THEN Date(dt.y, dt.m, dt.d + 1)
    ELSE IF dt.m < 12 THEN Date(dt.y, dt.m + 1, 1)
    ELSE Date(dt.y + 1, 1, 1)

PrevDay(dt) ==
    IF dt.d > 1 THEN Date(dt.y, dt.m, dt.d - 1)
    ELSE IF dt.m > 1 THEN Date(dt.y, dt.m - 1, DaysInMonth(dt.y, dt.m - 1))
    ELSE Date(dt.y - 1, 12, 31)

(***************************************************************************)
(* State.                                                                  *)
(***************************************************************************)
VARIABLES
    \* class Airac: the fields set by __init__
    start_date, base_date, cycle_days,
    \* the system clock (datetime.date.today()) and the number of days it
    \* stands after 2019-01-02
    today, elapsed,
    \* the last call made on the Airac object, how it ended, and the values
    \* it computed (a one-element sequence, or <<>> for no value)
    call, outcome, number_of_cycles, select_cycle, tag

airacVars ==
    <<start_date, base_date, cycle_days, today, elapsed,
      call, outcome, number_of_cycles, select_cycle, tag>>

VARIABLES
    \* the working tree Downloader.pull finds: whether the repository folder
    \* exists, where HEAD stands ("detached" at a tag, or on "main"), the
    \* files with unsaved local changes and the tag list
    folder_exists, head, changed_files, tags,
    \* local/settings.csv, line by line
    csv,
    \* the position of pull: "idle", "file" (top of the loop over the changed
    \* files), "line" (top of the loop over the diff lines), "prompt" (waiting
    \* for the answer to "Do you want to retain this setting?"), "stash",
    \* "tail" (line 249), "returned", "raised"
    pc,
    \* the locals of pull: 1-based positions in changed_files and in the split
    \* diff, the split diff of the current file, break_flag
    file_idx, line_idx, file_diff, break_flag,
    \* what pull returned or raised, and what it did to the repository
    ret, exc, stashed, pulled, checked_out,
    \* history: the candidates shown to the user, the answers given, and the
    \* files whose diff was read to its last line
    review, decisions, completed

pullVars ==
    <<folder_exists, head, changed_files, tags, csv, pc, file_idx, line_idx,
      file_diff, break_flag, ret, exc, stashed, pulled, checked_out,
      review, decisions, completed>>

VARIABLES
    \* the position of the update run: "user_settings" and "returned", or
    \* inside apply_settings "get_sector_file", "asr_sector_file",
    \* "prf_files", "txt_files", then "done"; and the exception that left the
    \* run at that position, or "none"
    stage, merge_exc,
    \* the sector data under the UK folder: the .sct files in the order
    \* os.walk meets them, and the .ese and .rwy files
    sct_fs, aux_fs,
    \* the .asr, .prf and .txt files in os.walk order, each with its path
    \* and its lines
    asr_fs, prf_fs, txt_fs,
    \* what user_settings returned (return_user_data), and the two flags it
    \* sets on the installation object
    settings_prf, plugin_vfpc, plugin_cdm,
    \* apply_settings' locals: sct_file and the 1-based position of the file
    \* the running stage is at
    sct_file, idx,
    \* history: the files as they were when apply_settings began
    before

mergeVars ==
    <<stage, merge_exc, sct_fs, aux_fs, asr_fs, prf_fs, txt_fs, settings_prf,
      plugin_vfpc, plugin_cdm, sct_file, idx, before>>

VARIABLES
    \* Downloader.__init__: the arguments git_folder and branch
    git_folder, branch,
    \* the machine: whether Euroscope().compare() passes, and whether
    \* "git --version" runs
    es_compatible, git_installed,
    \* the position of main ("check_requirements", "clone", then
    \* "user_settings" when it goes on, or "ended"), and the exception that
    \* ended it, or "none"
    main_pc, main_exc,
    \* check_requirements: the answer typed at its prompt (no element: no
    \* prompt was shown), the number of runs of install_git, and the value
    \* returned (no element: none)
    git_consent, installs, requirements,
    \* clone: the arguments of the clone_from calls made, the number of calls
    \* of get_remote_tags, the refs checked out, and the value returned
    clone_calls, tag_reads, checkouts, cloned

setupVars ==
    <<git_folder, branch, es_compatible, git_installed, main_pc, main_exc,
      git_consent, installs, requirements, clone_calls, tag_reads, checkouts,
      cloned>>

vars == <<airacVars, pullVars, mergeVars, setupVars>>

(***************************************************************************)
(* class Airac.                                                            *)
(***************************************************************************)
\* math.ceil in place of math.floor
MutCeilDiv(a, b) == -((-a) \div b)

\* int(a / b) in place of math.floor(a / b): truncation towards 0
MutTruncDiv(a, b) == IF a >= 0 THEN a \div b ELSE -((-a) \div b)

\* math.floor(a / b)
FloorDiv(a, b) == a \div b

\* Airac._initialise raises ValueError from date.fromisoformat
InitialiseRaises(date_in) == date_in # <<>> /\ ~IsIsoFormat(date_in)

\* Airac._initialise: the number of whole cycles from base_date to date_in,
\* or to today when date_in is ""
Initialise(date_in) ==
    LET input_date  == IF date_in # <<>> THEN FromIsoFormat(date_in) ELSE today
        diff_cycles == DaysBetween(input_date, base_date)
    IN  FloorDiv(diff_cycles, cycle_days)

\* Airac.cycle without the fixed one-day offset
MutCycleNoOffset(next_cycle, date_in) ==
    LET n == Initialise(date_in)
    IN  PlusDays(base_date, IF next_cycle THEN (n + 1) * cycle_days
                                         ELSE n * cycle_days)

\* Airac.cycle: the start date of the current (or next) cycle
Cycle(next_cycle, date_in) ==
    LET cycles         == Initialise(date_in)
        number_of_days == IF next_cycle THEN (cycles + 1) * cycle_days + 1
                                        ELSE cycles * cycle_days + 1
    IN  PlusDays(base_date, number_of_days)

\* Airac.current_tag with the look-back of the earlier revision: a cycle
\* start later than today is replaced by the start of the cycle before
MutCurrentTagLookback ==
    LET current_cycle == Cycle(FALSE, <<>>)
        looked_back   == IF ToOrdinal(current_cycle) > ToOrdinal(today)
                           THEN PlusDays(current_cycle, -cycle_days)
                           ELSE current_cycle
        split_cc      == Split(DateToStr(looked_back), "-")
    IN  split_cc[1] \o <<"/">> \o split_cc[2]

\* Airac.current_tag: yyyy/mm of the current cycle's start date
CurrentTag ==
    LET current_cycle == Cycle(FALSE, <<>>)
        split_cc      == Split(DateToStr(current_cycle), "-")
    IN  split_cc[1] \o <<"/">> \o split_cc[2]

\* date strings that are no ISO dates:
\* "2021", "2023-6-1", "2023-02-30", "2023-13-01", "2023/06/01", "0000-01-01"
Malformed ==
    { <<"2", "0", "2", "1">>,
      <<"2", "0", "2", "3", "-", "6", "-", "1">>,
      <<"2", "0", "2", "3", "-", "0", "2", "-", "3", "0">>,
      <<"2", "0", "2", "3", "-", "1", "3", "-", "0", "1">>,
      <<"2", "0", "2", "3", "/", "0", "6", "/", "0", "1">>,
      <<"0", "0", "0", "0", "-", "0", "1", "-", "0", "1">> }

\* the date arguments a caller passes: none, today's date, a malformed string
DirectArgs == {<<>>, DateToStr(today)} \cup Malformed

\* ... and, for _initialise, the date cycle() returned or the day before it
ChainedArgs ==
    IF select_cycle = <<>> THEN {}
    ELSE {DateToStr(select_cycle[1]), DateToStr(PlusDays(select_cycle[1], -1))}

NoCall == [op |-> "none", next_cycle |-> FALSE, date_in |-> <<>>]

\* Airac.__init__, with the clock standing at the base date
AiracInit ==
    /\ start_date = <<"2", "0", "1", "9", "-", "0", "1", "-", "0", "2">>
    /\ base_date = FromIsoFormat(start_date)
    /\ cycle_days = 28
    /\ today = FromIsoFormat(start_date)
    /\ elapsed = 0
    /\ call = NoCall
    /\ outcome = "none"
    /\ number_of_cycles = <<>>
    /\ select_cycle = <<>>
    /\ tag = <<>>

\* a day passes; the values of earlier calls are gone
ClockForward ==
    /\ elapsed < MaxDays
    /\ today' = NextDay(today)
    /\ elapsed' = elapsed + 1
    /\ call' = NoCall
    /\ outcome' = "none"
    /\ number_of_cycles' = <<>>
    /\ select_cycle' = <<>>
    /\ tag' = <<>>
    /\ UNCHANGED <<start_date, base_date, cycle_days>>
    /\ UNCHANGED <<pullVars, mergeVars, setupVars>>

\* the clock is set back a day
ClockBack ==
    /\ elapsed > -DaysBefore
    /\ today' = PrevDay(today)
    /\ elapsed' = elapsed - 1
    /\ call' = NoCall
    /\ outcome' = "none"
    /\ number_of_cycles' = <<>>
    /\ select_cycle' = <<>>
    /\ tag' = <<>>
    /\ UNCHANGED <<start_date, base_date, cycle_days>>
    /\ UNCHANGED <<pullVars, mergeVars, setupVars>>

\* a call of Airac._initialise(date_in)
CallInitialise(date_in) ==
    /\ call' = [op |-> "_initialise", next_cycle |-> FALSE, date_in |-> date_in]
    /\ IF InitialiseRaises(date_in)
         THEN /\ outcome' = "ValueError"
              /\ number_of_cycles' = <<>>
         ELSE /\ outcome' = "ok"
              /\ number_of_cycles' = <<Initialise(date_in)>>
    /\ tag' = <<>>
    /\ UNCHANGED <<start_date, base_date, cycle_days, today, elapsed, select_cycle>>
    /\ UNCHANGED <<pullVars, mergeVars, setupVars>>

\* a call of Airac.cycle(next_cycle, date_in)
CallCycle(next_cycle, date_in) ==
    /\ call' = [op |-> "cycle", next_cycle |-> next_cycle, date_in |-> date_in]
    /\ IF InitialiseRaises(date_in)
         THEN /\ outcome' = "ValueError"
              /\ number_of_cycles' = <<>>
              /\ select_cycle' = <<>>
         ELSE /\ outcome' = "ok"
              /\ number_of_cycles' = <<Initialise(date_in)>>
              /\ select_cycle' = <<Cycle(next_cycle, date_in)>>
    /\ tag' = <<>>
    /\ UNCHANGED <<start_date, base_date, cycle_days, today, elapsed>>
    /\ UNCHANGED <<pullVars, mergeVars, setupVars>>

\* a call of Airac.current_tag()
CallCurrentTag ==
    /\ call' = [op |-> "current_tag", next_cycle |-> FALSE, date_in |-> <<>>]
    /\ outcome' = "ok"
    /\ number_of_cycles' = <<Initialise(<<>>)>>
    /\ select_cycle' = <<Cycle(FALSE, <<>>)>>
    /\ tag' = CurrentTag
    /\ UNCHANGED <<start_date, base_date, cycle_days, today, elapsed>>
    /\ UNCHANGED <<pullVars, mergeVars, setupVars>>

AiracNext ==
    \/ ClockForward
    \/ ClockBack
    \/ \E date_in \in DirectArgs \cup ChainedArgs : CallInitialise(date_in)
    \/ \E next_cycle \in BOOLEAN, date_in \in DirectArgs :
           CallCycle(next_cycle, date_in)
    \/ CallCurrentTag

(***************************************************************************)
(* Downloader.check_requirements and Downloader.clone, as main calls them. *)
(***************************************************************************)
\* self.repo_url
RepoUrl == "https://github.com/VATSIM-UK/uk-controller-pack.git"

\* self.euroscope_appdata: os.path.join(os.environ["APPDATA"], 'EuroScope')
EuroscopeAppdata == <<"A", ":", "\\", "E", "u", "r", "o", "S", "c", "o", "p", "e">>

\* self.git_path: f"{self.euroscope_appdata}\\{git_folder}"
GitPath == EuroscopeAppdata \o <<"\\">> \o git_folder

\* the answers typed at "Are you happy for this tool to install 'git'?"
GitConsents == { <<"Y">>, <<"y">>, <<"n">>, <<>>, <<"y", "e", "s">> }

\* the tag lists of the remote repository, the last tag being the latest
RemoteTagLists == { <<>>, <<"2023/04">>, <<"2023/04", "2023/05">> }

\* the first tag of the list
MutFirstTag(list) == list[1]

\* tags[-1]
LatestTag(list) == list[Len(list)]

\* a test that takes every answer but n as consent
MutConsentedUnlessNo(answer) == Upper(answer) # <<"N">>

\* line 162: consent.upper() == "Y" or consent is None (input returns a str)
Consented(answer) == Upper(answer) = <<"Y">>

\* no Downloader method has been called
SetupIdle ==
    /\ git_folder = <<"u", "k", "-", "c", "o", "n", "t", "r", "o", "l", "l", "e", "r", "-", "p", "a", "c", "k">>
    /\ branch = "main"
    /\ es_compatible = TRUE
    /\ git_installed = TRUE
    /\ main_pc = "idle"
    /\ main_exc = "none"
    /\ git_consent = <<>>
    /\ installs = 0
    /\ requirements = <<>>
    /\ clone_calls = <<>>
    /\ tag_reads = 0
    /\ checkouts = <<>>
    /\ cloned = <<>>

\* main is started on any machine, with any Downloader
SetupInit ==
    /\ git_folder \in { <<"u", "k", "-", "c", "o", "n", "t", "r", "o", "l", "l", "e", "r", "-", "p", "a", "c", "k">>, <<"u", "k", "c", "p">> }
    /\ branch \in {"main", "dev"}
    /\ es_compatible \in BOOLEAN
    /\ git_installed \in BOOLEAN
    /\ main_pc = "check_requirements"
    /\ main_exc = "none"
    /\ git_consent = <<>>
    /\ installs = 0
    /\ requirements = <<>>
    /\ clone_calls = <<>>
    /\ tag_reads = 0
    /\ checkouts = <<>>
    /\ cloned = <<>>

\* the repository folder before clone: there with its tags and HEAD at the
\* latest one, or not there
RepoInit ==
    /\ folder_exists \in BOOLEAN
    /\ head = "detached"
    /\ changed_files = <<>>
    /\ tags = (IF folder_exists THEN <<"2023/04">> ELSE <<>>)
    /\ csv = <<>>
    /\ pc = "idle"
    /\ file_idx = 0
    /\ line_idx = 0
    /\ file_diff = <<>>
    /\ break_flag = FALSE
    /\ ret = <<>>
    /\ exc = "none"
    /\ stashed = FALSE
    /\ pulled = FALSE
    /\ checked_out = (IF folder_exists THEN "2023/04" ELSE "none")
    /\ review = <<>>
    /\ decisions = <<>>
    /\ completed = {}

\* check_requirements, lines 152-169, and line 38 of __main__.py: compare
\* returns True or raises ValueError; without git the user is asked, and
\* install_git runs on consent; main goes on when True is returned
CheckRequirements ==
    /\ main_pc = "check_requirements"
    /\ IF ~es_compatible
         THEN /\ main_exc' = "ValueError"
              /\ main_pc' = "ended"
              /\ UNCHANGED <<git_installed, git_consent, installs, requirements>>
         ELSE IF git_installed
         THEN /\ requirements' = <<TRUE>>
              /\ main_pc' = "clone"
              /\ UNCHANGED <<git_installed, main_exc, git_consent, installs>>
         ELSE \E answer \in GitConsents :
                /\ git_consent' = <<answer>>
                /\ main_exc' = main_exc
                /\ IF Consented(answer)
                     THEN \E install_ok \in BOOLEAN :
                            /\ installs' = installs + 1
                            /\ git_installed' = install_ok
                            /\ requirements' = <<install_ok>>
                            /\ main_pc' = (IF install_ok THEN "clone" ELSE "ended")
                     ELSE /\ requirements' = <<FALSE>>
                          /\ main_pc' = "ended"
                          /\ UNCHANGED <<git_installed, installs>>
    /\ UNCHANGED <<git_folder, branch, es_compatible, clone_calls, tag_reads,
                   checkouts, cloned>>
    /\ UNCHANGED <<airacVars, pullVars, mergeVars>>

\* clone, lines 173-189: nothing is done to a folder that exists; otherwise
\* clone_from, get_remote_tags and the checkout of tags[-1]
Clone ==
    /\ main_pc = "clone"
    /\ IF folder_exists
         THEN /\ cloned' = <<TRUE>>
              /\ main_pc' = "user_settings"
              /\ UNCHANGED <<main_exc, clone_calls, tag_reads, checkouts,
                             folder_exists, head, tags, checked_out>>
         ELSE \E clone_ok \in BOOLEAN, remote \in RemoteTagLists :
                /\ clone_calls' = Append(clone_calls,
                                         [url |-> RepoUrl, to_path |-> GitPath,
                                          branch |-> branch])
                /\ IF ~clone_ok
                     THEN /\ main_exc' = "GitCommandError"
                          /\ main_pc' = "ended"
                          /\ UNCHANGED <<tag_reads, checkouts, cloned,
                                         folder_exists, head, tags, checked_out>>
                     ELSE /\ folder_exists' = TRUE
                          /\ tags' = remote
                          /\ tag_reads' = tag_reads + 1
                          /\ IF remote = <<>>
                               THEN /\ main_exc' = "IndexError"
                                    /\ main_pc' = "ended"
                                    /\ head' = branch
                                    /\ UNCHANGED <<checkouts, cloned, checked_out>>
                               ELSE /\ checkouts' = Append(checkouts, LatestTag(remote))
                                    /\ checked_out' = LatestTag(remote)
                                    /\ head' = "detached"
                                    /\ cloned' = <<FALSE>>
                                    /\ main_pc' = "user_settings"
                                    /\ main_exc' = main_exc
    /\ UNCHANGED <<git_folder, branch, es_compatible, git_installed, git_consent,
                   installs, requirements>>
    /\ UNCHANGED <<changed_files, csv, pc, file_idx, line_idx, file_diff,
                   break_flag, ret, exc, stashed, pulled, review, decisions,
                   completed>>
    /\ UNCHANGED <<airacVars, mergeVars>>

SetupNext ==
    \/ CheckRequirements
    \/ Clone

(***************************************************************************)
(* Downloader.pull: the review of the local changes.                       *)
(***************************************************************************)
\* the largest number of changed files in the working tree
MaxFiles == 2

\* the changed files the working tree is made of, each with the text
\* "git diff <tag> <file>" prints for it, split into lines
\* UK/a.asr, diff: +++ b/UK/a.asr | @@ -1 +1 @@ | -Old:0 | +SECTORFILE:x | +SomeSetting:1 | +SECTORTITLE:y
FileAsr ==
    [path |-> <<"U", "K", "/", "a", ".", "a", "s", "r">>,
     exists |-> TRUE,
     diff_ok |-> TRUE,
     diff |-> <<<<"+", "+", "+", " ", "b", "/", "U", "K", "/", "a", ".", "a", "s", "r">>,
                <<"@", "@", " ", "-", "1", " ", "+", "1", " ", "@", "@">>,
                <<"-", "O", "l", "d", ":", "0">>,
                <<"+", "S", "E", "C", "T", "O", "R", "F", "I", "L", "E", ":", "x">>,
                <<"+", "S", "o", "m", "e", "S", "e", "t", "t", "i", "n", "g", ":", "1">>,
                <<"+", "S", "E", "C", "T", "O", "R", "T", "I", "T", "L", "E", ":", "y">>>>]

\* UK/b.txt, diff: +Alpha:1 | +;note | +Beta:2 |  ctx | +Gamma:3
FileTxt ==
    [path |-> <<"U", "K", "/", "b", ".", "t", "x", "t">>,
     exists |-> TRUE,
     diff_ok |-> TRUE,
     diff |-> <<<<"+", "A", "l", "p", "h", "a", ":", "1">>,
                <<"+", ";", "n", "o", "t", "e">>,
                <<"+", "B", "e", "t", "a", ":", "2">>,
                <<" ", "c", "t", "x">>,
                <<"+", "G", "a", "m", "m", "a", ":", "3">>>>]

\* UK/c.prf, diff: +Name:1
FilePrf ==
    [path |-> <<"U", "K", "/", "c", ".", "p", "r", "f">>,
     exists |-> TRUE,
     diff_ok |-> TRUE,
     diff |-> <<<<"+", "N", "a", "m", "e", ":", "1">>>>]

\* UK/d.txt (deleted from the working tree), diff: +Gone:1
FileGone ==
    [path |-> <<"U", "K", "/", "d", ".", "t", "x", "t">>,
     exists |-> FALSE,
     diff_ok |-> TRUE,
     diff |-> <<<<"+", "G", "o", "n", "e", ":", "1">>>>]

\* UK/e.asr, diff: +PLUGIN:vSMR:GndTrailsDots:1 | +SECTORLINE:a | +Delta:4 |  | +Delta:4
FileSmr ==
    [path |-> <<"U", "K", "/", "e", ".", "a", "s", "r">>,
     exists |-> TRUE,
     diff_ok |-> TRUE,
     diff |-> <<<<"+", "P", "L", "U", "G", "I", "N", ":", "v", "S", "M", "R", ":", "G", "n", "d", "T", "r", "a", "i", "l", "s", "D", "o", "t", "s", ":", "1">>,
                <<"+", "S", "E", "C", "T", "O", "R", "L", "I", "N", "E", ":", "a">>,
                <<"+", "D", "e", "l", "t", "a", ":", "4">>,
                <<>>,
                <<"+", "D", "e", "l", "t", "a", ":", "4">>>>]

\* UK/f.txt (git diff against the tag fails), diff: none
FileNoRef ==
    [path |-> <<"U", "K", "/", "f", ".", "t", "x", "t">>,
     exists |-> TRUE,
     diff_ok |-> FALSE,
     diff |-> <<>>]

\* UK/g.txt, diff: +Say:"a,b"
FileCsv ==
    [path |-> <<"U", "K", "/", "g", ".", "t", "x", "t">>,
     exists |-> TRUE,
     diff_ok |-> TRUE,
     diff |-> << <<"+", "S", "a", "y", ":", "\"", "a", ",", "b", "\"">> >>]

FileLib == <<FileAsr, FileTxt, FilePrf, FileGone, FileSmr, FileNoRef, FileCsv>>

\* the lists repo.index.diff(None) can return: up to MaxFiles distinct files,
\* in the order of the index, which git keeps sorted by path
Worktrees ==
    UNION {{[i \in 1..n |-> FileLib[f[i]]] :
               f \in {g \in [1..n -> DOMAIN FileLib] :
                         \A a, b \in 1..n : a < b => g[a] < g[b]}} :
           n \in 0..MaxFiles}

\* the lists get_remote_tags can return, the last tag being the latest
TagLists == {<<>>, <<"2023/04", "2023/05">>}

\* the first line of local/settings.csv: filepath,data
CsvHeader == <<"f", "i", "l", "e", "p", "a", "t", "h", ",", "d", "a", "t", "a">>

\* a settings.csv left by an earlier run: the header and UK/old.txt,Stale:9
StaleCsv == <<CsvHeader, <<"U", "K", "/", "o", "l", "d", ".", "t", "x", "t", ",", "S", "t", "a", "l", "e", ":", "9">>>>

\* the answers typed at the prompt: y, Y, n, nothing, s, a, yes
Answers ==
    {<<"y">>, <<"Y">>, <<"n">>, <<>>, <<"s">>, <<"a">>, <<"y", "e", "s">>}

\* str(file).rsplit(".", maxsplit=1)[-1]
RECURSIVE LastExt(_)
LastExt(s) ==
    IF \A i \in DOMAIN s : s[i] # "." THEN s
    ELSE LastExt(Tail(s))

\* the extensions the review leaves out: prf, sct, rwy, ese
SkippedExt ==
    {<<"p", "r", "f">>, <<"s", "c", "t">>, <<"r", "w", "y">>, <<"e", "s", "e">>}

\* a filter that takes every added line, whatever follows the "+"
MutChkAnyAddition(d_file) == Len(d_file) >= 1 /\ d_file[1] = "+"

\* re.match(r"^[\+]([A-Za-z]+.*)", d_file)
Chk(d_file) == Len(d_file) >= 2 /\ d_file[1] = "+" /\ d_file[2] \in Alpha

\* chk.group(1): the line without its "+"
Group1(d_file) == Tail(d_file)

\* re.match(r"^\+SECTOR[FILE|TITLE].*", d_file): "+SECTOR" and then one
\* character of the class [FILE|TITLE]
ExcludeSectorInfo(d_file) ==
    /\ StartsWith(d_file, <<"+", "S", "E", "C", "T", "O", "R">>)
    /\ Len(d_file) >= 8
    /\ d_file[8] \in {"F", "I", "L", "E", "|", "T"}

\* re.match(r"^\+PLUGIN:vSMR:GndTrailsDots.*", d_file)
ExcludeGndTrailDots(d_file) == StartsWith(d_file, <<"+", "P", "L", "U", "G", "I", "N", ":", "v", "S", "M", "R", ":", "G", "n", "d", "T", "r", "a", "i", "l", "s", "D", "o", "t", "s">>)

\* the condition of line 229: the line is shown to the user
IsCandidate(d_file) ==
    Chk(d_file) /\ ~ExcludeSectorInfo(d_file) /\ ~ExcludeGndTrailDots(d_file)

\* the condition of line 218: the file is reviewed
IsReviewed(file) == LastExt(file.path) \notin SkippedExt /\ file.exists

\* the row f"{file},{chk.group(1)}" written to settings.csv
CsvRow(path, data) == path \o <<",">> \o data

\* an answer handling in which "a" ends the current file only
MutDecisionSkipAllAsSkipFile(add_setting) ==
    IF Upper(add_setting) = <<"Y">> THEN "accept"
    ELSE IF Upper(add_setting) \in {<<"S">>, <<"A">>} THEN "skipfile"
    ELSE "reject"

\* an answer handling in which "s" is taken for a plain no
MutDecisionSkipFileAsReject(add_setting) ==
    IF Upper(add_setting) = <<"Y">> THEN "accept"
    ELSE IF Upper(add_setting) = <<"A">> THEN "skipall"
    ELSE "reject"

\* lines 235-241: what an answer does
Decision(add_setting) ==
    IF Upper(add_setting) = <<"Y">> THEN "accept"
    ELSE IF Upper(add_setting) = <<"S">> THEN "skipfile"
    ELSE IF Upper(add_setting) = <<"A">> THEN "skipall"
    ELSE "reject"

\* the state before pull is called, for any working tree
PullInit ==
    /\ folder_exists \in BOOLEAN
    /\ head \in {"detached", "main"}
    /\ changed_files \in Worktrees
    /\ tags \in TagLists
    /\ csv \in {<<>>, StaleCsv}
    /\ pc = "idle"
    /\ file_idx = 0
    /\ line_idx = 0
    /\ file_diff = <<>>
    /\ break_flag = FALSE
    /\ ret = <<>>
    /\ exc = "none"
    /\ stashed = FALSE
    /\ pulled = FALSE
    /\ checked_out = "none"
    /\ review = <<>>
    /\ decisions = <<>>
    /\ completed = {}

\* the state of a Downloader on which pull is never called
PullIdle ==
    /\ folder_exists = TRUE
    /\ head = "detached"
    /\ changed_files = <<>>
    /\ tags = <<>>
    /\ csv = <<>>
    /\ pc = "idle"
    /\ file_idx = 0
    /\ line_idx = 0
    /\ file_diff = <<>>
    /\ break_flag = FALSE
    /\ ret = <<>>
    /\ exc = "none"
    /\ stashed = FALSE
    /\ pulled = FALSE
    /\ checked_out = "none"
    /\ review = <<>>
    /\ decisions = <<>>
    /\ completed = {}

\* pull, lines 193-213: the folder test, the checkout of the branch and, when
\* the checkout fails, the list of changed files, settings.csv opened for
\* writing with its header, and the tag list
PullStart ==
    /\ pc = "idle"
    /\ IF ~folder_exists
         THEN /\ pc' = "returned"
              /\ ret' = <<FALSE>>
              /\ UNCHANGED <<head, csv, file_idx, break_flag, exc>>
         ELSE \E checkout_ok \in BOOLEAN :
                /\ head = "main" => checkout_ok
                /\ IF checkout_ok
                     THEN /\ head' = "main"
                          /\ pc' = "tail"
                          /\ UNCHANGED <<csv, file_idx, break_flag, exc, ret>>
                     ELSE IF changed_files = <<>>
                     THEN /\ pc' = "tail"
                          /\ UNCHANGED <<head, csv, file_idx, break_flag, exc, ret>>
                     ELSE /\ csv' = <<CsvHeader>>
                          /\ IF tags = <<>>
                               THEN /\ pc' = "raised"
                                    /\ exc' = "IndexError"
                                    /\ UNCHANGED <<file_idx, break_flag>>
                               ELSE /\ pc' = "file"
                                    /\ file_idx' = 1
                                    /\ break_flag' = FALSE
                                    /\ exc' = exc
                          /\ UNCHANGED <<head, ret>>
    /\ UNCHANGED <<folder_exists, changed_files, tags, line_idx, file_diff,
                   stashed, pulled, checked_out, review, decisions, completed>>
    /\ UNCHANGED <<airacVars, mergeVars, setupVars>>

\* lines 214-221: the top of the loop over the changed files
NextFile ==
    /\ pc = "file"
    /\ IF file_idx > Len(changed_files) \/ break_flag
         THEN /\ pc' = "stash"
              /\ UNCHANGED <<file_idx, line_idx, file_diff, exc>>
         ELSE IF ~IsReviewed(changed_files[file_idx])
         THEN /\ file_idx' = file_idx + 1
              /\ UNCHANGED <<pc, line_idx, file_diff, exc>>
         ELSE IF ~changed_files[file_idx].diff_ok
         THEN /\ pc' = "raised"
              /\ exc' = "GitCommandError"
              /\ UNCHANGED <<file_idx, line_idx, file_diff>>
         ELSE /\ file_diff' = changed_files[file_idx].diff
              /\ line_idx' = 1
              /\ pc' = "line"
              /\ UNCHANGED <<file_idx, exc>>
    /\ UNCHANGED <<folder_exists, head, changed_files, tags, csv, break_flag,
                   ret, stashed, pulled, checked_out, review, decisions, completed>>
    /\ UNCHANGED <<airacVars, mergeVars, setupVars>>

\* lines 222-234: the next line of the diff, up to the prompt
ScanLine ==
    /\ pc = "line"
    /\ IF line_idx > Len(file_diff)
         THEN /\ completed' = completed \cup {file_idx}
              /\ file_idx' = file_idx + 1
              /\ pc' = "file"
              /\ UNCHANGED <<line_idx, review>>
         ELSE IF IsCandidate(file_diff[line_idx])
         THEN /\ review' = Append(review, [fidx |-> file_idx, lidx |-> line_idx,
                                           d_file |-> file_diff[line_idx]])
              /\ pc' = "prompt"
              /\ UNCHANGED <<file_idx, line_idx, completed>>
         ELSE /\ line_idx' = line_idx + 1
              /\ UNCHANGED <<pc, file_idx, review, completed>>
    /\ UNCHANGED <<folder_exists, head, changed_files, tags, csv, file_diff,
                   break_flag, ret, exc, stashed, pulled, checked_out, decisions>>
    /\ UNCHANGED <<airacVars, mergeVars, setupVars>>

\* lines 234-241: the user's answer to the prompt
Answer(add_setting) ==
    /\ pc = "prompt"
    /\ decisions' = Append(decisions, add_setting)
    /\ IF Decision(add_setting) = "accept"
         THEN /\ csv' = Append(csv, CsvRow(changed_files[file_idx].path,
                                            Group1(file_diff[line_idx])))
              /\ line_idx' = line_idx + 1
              /\ pc' = "line"
              /\ UNCHANGED <<file_idx, break_flag>>
         ELSE IF Decision(add_setting) = "skipfile"
         THEN /\ file_idx' = file_idx + 1
              /\ pc' = "file"
              /\ UNCHANGED <<csv, line_idx, break_flag>>
         ELSE IF Decision(add_setting) = "skipall"
         THEN /\ break_flag' = TRUE
              /\ file_idx' = file_idx + 1
              /\ pc' = "file"
              /\ UNCHANGED <<csv, line_idx>>
         ELSE /\ line_idx' = line_idx + 1
              /\ pc' = "line"
              /\ UNCHANGED <<csv, file_idx, break_flag>>
    /\ UNCHANGED <<folder_exists, head, changed_files, tags, file_diff, ret, exc,
                   stashed, pulled, checked_out, review, completed>>
    /\ UNCHANGED <<airacVars, mergeVars, setupVars>>

\* lines 243-245: the local changes are stashed
Stash ==
    /\ pc = "stash"
    /\ stashed' = TRUE
    /\ pc' = "tail"
    /\ UNCHANGED <<folder_exists, head, changed_files, tags, csv, file_idx,
                   line_idx, file_diff, break_flag, ret, exc, pulled,
                   checked_out, review, decisions, completed>>
    /\ UNCHANGED <<airacVars, mergeVars, setupVars>>

\* lines 249-288: on the requested branch, stash, pull and check out the
\* latest tag; with a detached HEAD (TypeError) or on another branch, False
PullTail ==
    /\ pc = "tail"
    /\ IF head # "main"
         THEN /\ ret' = <<FALSE>>
              /\ pc' = "returned"
              /\ UNCHANGED <<head, tags, exc, stashed, pulled, checked_out>>
         ELSE /\ stashed' = TRUE
              /\ pulled' = TRUE
              /\ \E new_tags \in {<<>>, <<"2023/06">>} : tags' = tags \o new_tags
              /\ IF tags' = <<>>
                   THEN /\ pc' = "raised"
                        /\ exc' = "IndexError"
                        /\ UNCHANGED <<head, ret, checked_out>>
                   ELSE /\ head' = "detached"
                        /\ checked_out' = tags'[Len(tags')]
                        /\ ret' = <<TRUE>>
                        /\ pc' = "returned"
                        /\ exc' = exc
    /\ UNCHANGED <<folder_exists, changed_files, csv, file_idx, line_idx,
                   file_diff, break_flag, review, decisions, completed>>
    /\ UNCHANGED <<airacVars, mergeVars, setupVars>>

PullNext ==
    \/ PullStart
    \/ NextFile
    \/ ScanLine
    \/ \E add_setting \in Answers : Answer(add_setting)
    \/ Stash
    \/ PullTail

(***************************************************************************)
(* CurrentInstallation.apply_settings: text and path helpers.              *)
(***************************************************************************)
\* str(n) for n >= 0
RECURSIVE IntToStr(_)
IntToStr(n) ==
    IF n < 10 THEN <<Digits[n + 1]>>
    ELSE IntToStr(n \div 10) \o <<Digits[(n % 10) + 1]>>

\* s.replace(old, new) for a one-character old
RECURSIVE Replace(_, _, _)
Replace(s, old, new) ==
    IF s = <<>> THEN <<>>
    ELSE (IF Head(s) = old THEN new ELSE <<Head(s)>>) \o Replace(Tail(s), old, new)

\* sub in s
Contains(s, sub) ==
    \E i \in 0..(Len(s) - Len(sub)) : SubSeq(s, i + 1, i + Len(sub)) = sub

\* the replacement template of re.sub as re expands it: a doubled backslash
\* stands for one backslash, every other character for itself
RECURSIVE ExpandTemplate(_)
ExpandTemplate(t) ==
    IF t = <<>> THEN <<>>
    ELSE IF Len(t) >= 2 /\ t[1] = "\\" /\ t[2] = "\\"
           THEN <<"\\">> \o ExpandTemplate(SubSeq(t, 3, Len(t)))
           ELSE <<t[1]>> \o ExpandTemplate(Tail(t))

\* where a ".*" that starts inside the line stops: before the line's "\n"
DotStarEnd(line) ==
    IF \E i \in DOMAIN line : line[i] = "\n"
      THEN (CHOOSE i \in DOMAIN line :
                line[i] = "\n" /\ \A j \in 1..(i - 1) : line[j] # "\n") - 1
      ELSE Len(line)

\* re.sub(r"^<prefix>(.*)", repl, line) for a literal prefix
ReSubLine(prefix, repl, line) ==
    IF StartsWith(line, prefix)
      THEN ExpandTemplate(repl) \o SubSeq(line, DotStarEnd(line) + 1, Len(line))
      ELSE line

\* text written at the end of a file whose lines are given: it continues the
\* last line when that line has no "\n"
AppendLines(lines, new) ==
    IF lines # <<>> /\ new # <<>> /\ lines[Len(lines)][Len(lines[Len(lines)])] # "\n"
      THEN SubSeq(lines, 1, Len(lines) - 1)
             \o <<lines[Len(lines)] \o Head(new)>> \o Tail(new)
      ELSE lines \o new

\* os.path.join(root, file_name) on Windows
JoinPath(root, file_name) == root \o <<"\\">> \o file_name

\* the last component of a path, and a file name up to its first "."
FileName(path) == LET parts == Split(path, "\\") IN parts[Len(parts)]

BaseName(file_name) == Split(file_name, ".")[1]

\* self.ukcp_location: E:\UK
UkcpLocation == <<"E", ":", "\\", "U", "K">>

\* f"{self.ukcp_location}\\Data\\Sector"
SectorDir == UkcpLocation \o <<"\\", "D", "a", "t", "a", "\\", "S", "e", "c", "t", "o", "r">>

\* self.airac, set by __init__ from Airac().current_tag()
SelfAirac == CurrentTag

\* str(self.airac.replace("/", "_"))
AiracFormat == Replace(SelfAirac, "/", <<"_">>)

(***************************************************************************)
(* The sector data an installation can hold.                               *)
(***************************************************************************)
\* the sector file of the current cycle, of the cycle before, and a copy of
\* an older one left in the UK folder itself without .ese and .rwy
SctCur == JoinPath(SectorDir, <<"U", "K", "_">> \o AiracFormat \o <<".", "s", "c", "t">>)

SctOld == JoinPath(SectorDir, <<"U", "K", "_", "2", "0", "1", "8", "_", "1", "3", ".", "s", "c", "t">>)

SctStray == JoinPath(UkcpLocation, <<"U", "K", "_", "2", "0", "1", "8", "_", "1", "2", ".", "s", "c", "t">>)

\* the three files of one sector release, in the order they are removed
SectorData(base) ==
    <<JoinPath(SectorDir, base \o <<".", "e", "s", "e">>),
      JoinPath(SectorDir, base \o <<".", "r", "w", "y">>),
      JoinPath(SectorDir, base \o <<".", "s", "c", "t">>)>>

\* the .ese and .rwy files that come with a .sct file in Data\Sector
AuxOf(path) ==
    LET data == SectorData(BaseName(FileName(path))) IN {data[1], data[2]}

\* the .sct files found, in os.walk order (the UK folder before Data\Sector)
SectorInstalls ==
    { <<>>, <<SctOld>>, <<SctCur>>, <<SctOld, SctCur>>, <<SctCur, SctOld>>,
      <<SctStray, SctCur>> }

\* the answers to "Would you like to download the latest sector file?"
DlAnswers == { <<"y">>, <<"n">>, <<>> }

\* os.remove of each target in turn: the files left and whether every target
\* was there (the first missing one raises FileNotFoundError)
RECURSIVE RemoveEach(_, _)
RemoveEach(fs, targets) ==
    IF targets = <<>> THEN [fs |-> fs, ok |-> TRUE]
    ELSE IF Head(targets) \notin fs THEN [fs |-> fs, ok |-> FALSE]
    ELSE RemoveEach(fs \ {Head(targets)}, Tail(targets))

\* every sector data file there is
SectorFs == {sct_fs[i] : i \in DOMAIN sct_fs} \cup aux_fs

(***************************************************************************)
(* The .asr files an installation can hold.                                *)
(***************************************************************************)
\* a.asr: Zoom:1
AsrPlain ==
    [path |-> JoinPath(UkcpLocation, <<"a", ".", "a", "s", "r">>),
     lines |-> << <<"Z", "o", "o", "m", ":", "1", "\n">> >>]

\* b.asr: SECTORFILE:old.sct | SECTORTITLE:old | Zoom:1
AsrOld ==
    [path |-> JoinPath(UkcpLocation, <<"b", ".", "a", "s", "r">>),
     lines |-> << <<"S", "E", "C", "T", "O", "R", "F", "I", "L", "E", ":", "o", "l", "d", ".", "s", "c", "t", "\n">>, <<"S", "E", "C", "T", "O", "R", "T", "I", "T", "L", "E", ":", "o", "l", "d", "\n">>, <<"Z", "o", "o", "m", ":", "1", "\n">> >>]

\* c.asr: the two sector lines as an earlier update wrote them for the
\* current sector file
AsrCur ==
    [path |-> JoinPath(UkcpLocation, <<"c", ".", "a", "s", "r">>),
     lines |-> << <<"Z", "o", "o", "m", ":", "1", "\n">>,
                 <<"S", "E", "C", "T", "O", "R", "F", "I", "L", "E", ":">> \o SctCur \o <<"\n">>,
                 <<"S", "E", "C", "T", "O", "R", "T", "I", "T", "L", "E", ":">> \o FileName(SctCur) \o <<"\n">> >>]

\* d.asr: Zoom:2, the last line without a line end
AsrNoEol ==
    [path |-> JoinPath(UkcpLocation, <<"d", ".", "a", "s", "r">>),
     lines |-> << <<"Z", "o", "o", "m", ":", "2">> >>]

AsrInstalls == { <<>>, <<AsrPlain>>, <<AsrNoEol>>, <<AsrCur, AsrOld>> }

(***************************************************************************)
(* The .prf files an installation can hold.                                *)
(***************************************************************************)
\* f.prf as the controller pack ships it: the sector line and the pack's own
\* two plugins, given relative to the profile
PrfFresh ==
    [path |-> JoinPath(UkcpLocation, <<"f", ".", "p", "r", "f">>),
     lines |-> << <<"S", "e", "t", "t", "i", "n", "g", "s", "\t", "s", "e", "c", "t", "o", "r", "\t", "o", "l", "d", ".", "s", "c", "t", "\n">>,
                 <<"P", "l", "u", "g", "i", "n", "s", "\t", "P", "l", "u", "g", "i", "n", "0", "\t", "U", "K", "C", "P", ".", "d", "l", "l", "\n">>,
                 <<"P", "l", "u", "g", "i", "n", "s", "\t", "P", "l", "u", "g", "i", "n", "1", "\t", "v", "S", "M", "R", ".", "d", "l", "l", "\n">> >>]

\* g.prf, used by Ann: a custom plugin, no saved password, the push-to-talk
\* key for ground-to-air and all four audio settings
PrfAnn ==
    [path |-> JoinPath(UkcpLocation, <<"g", ".", "p", "r", "f">>),
     lines |-> << <<"S", "e", "t", "t", "i", "n", "g", "s", "\t", "s", "e", "c", "t", "o", "r", "\t", "o", "l", "d", ".", "s", "c", "t", "\n">>,
                 <<"P", "l", "u", "g", "i", "n", "s", "\t", "P", "l", "u", "g", "i", "n", "0", "\t", "U", "K", "C", "P", ".", "d", "l", "l", "\n">>,
                 <<"P", "l", "u", "g", "i", "n", "s", "\t", "P", "l", "u", "g", "i", "n", "1", "\t", "C", ":", "\\", "V", "F", "P", "C", ".", "d", "l", "l", "\n">>,
                 <<"L", "a", "s", "t", "S", "e", "s", "s", "i", "o", "n", "\t", "r", "e", "a", "l", "n", "a", "m", "e", "\t", "A", "n", "n", "\n">>,
                 <<"L", "a", "s", "t", "S", "e", "s", "s", "i", "o", "n", "\t", "c", "e", "r", "t", "i", "f", "i", "c", "a", "t", "e", "\t", "1", "2", "3", "4", "5", "6", "7", "\n">>,
                 <<"L", "a", "s", "t", "S", "e", "s", "s", "i", "o", "n", "\t", "r", "a", "t", "i", "n", "g", "\t", "3", "\n">>,
                 <<"T", "e", "a", "m", "S", "p", "e", "a", "k", "V", "c", "c", "s", "\t", "T", "s", "3", "G", "2", "A", "P", "t", "t", "\t", "3", "0", "\n">>,
                 <<"T", "e", "a", "m", "S", "p", "e", "a", "k", "V", "c", "c", "s", "\t", "P", "l", "a", "y", "b", "a", "c", "k", "M", "o", "d", "e", "\t", "W", "i", "n", "\n">>,
                 <<"T", "e", "a", "m", "S", "p", "e", "a", "k", "V", "c", "c", "s", "\t", "P", "l", "a", "y", "b", "a", "c", "k", "D", "e", "v", "i", "c", "e", "\t", "S", "p", "k", "\n">>,
                 <<"T", "e", "a", "m", "S", "p", "e", "a", "k", "V", "c", "c", "s", "\t", "C", "a", "p", "t", "u", "r", "e", "M", "o", "d", "e", "\t", "W", "i", "n", "\n">>,
                 <<"T", "e", "a", "m", "S", "p", "e", "a", "k", "V", "c", "c", "s", "\t", "C", "a", "p", "t", "u", "r", "e", "D", "e", "v", "i", "c", "e", "\t", "M", "i", "c", "\n">> >>]

\* h.prf, used by Bob: another custom plugin, a saved password, the
\* push-to-talk key for ground-to-ground and three of the audio settings
PrfBob ==
    [path |-> JoinPath(UkcpLocation, <<"h", ".", "p", "r", "f">>),
     lines |-> << <<"P", "l", "u", "g", "i", "n", "s", "\t", "P", "l", "u", "g", "i", "n", "0", "\t", "D", ":", "\\", "C", "D", "M", ".", "d", "l", "l", "\n">>,
                 <<"L", "a", "s", "t", "S", "e", "s", "s", "i", "o", "n", "\t", "r", "e", "a", "l", "n", "a", "m", "e", "\t", "B", "o", "b", "\n">>,
                 <<"L", "a", "s", "t", "S", "e", "s", "s", "i", "o", "n", "\t", "c", "e", "r", "t", "i", "f", "i", "c", "a", "t", "e", "\t", "7", "6", "5", "4", "3", "2", "1", "\n">>,
                 <<"L", "a", "s", "t", "S", "e", "s", "s", "i", "o", "n", "\t", "p", "a", "s", "s", "w", "o", "r", "d", "\t", "p", "w", "2", "\n">>,
                 <<"L", "a", "s", "t", "S", "e", "s", "s", "i", "o", "n", "\t", "r", "a", "t", "i", "n", "g", "\t", "5", "\n">>,
                 <<"T", "e", "a", "m", "S", "p", "e", "a", "k", "V", "c", "c", "s", "\t", "T", "s", "3", "G", "2", "G", "P", "t", "t", "\t", "3", "1", "\n">>,
                 <<"T", "e", "a", "m", "S", "p", "e", "a", "k", "V", "c", "c", "s", "\t", "P", "l", "a", "y", "b", "a", "c", "k", "M", "o", "d", "e", "\t", "W", "i", "n", "\n">>,
                 <<"T", "e", "a", "m", "S", "p", "e", "a", "k", "V", "c", "c", "s", "\t", "P", "l", "a", "y", "b", "a", "c", "k", "D", "e", "v", "i", "c", "e", "\t", "S", "p", "k", "\n">>,
                 <<"T", "e", "a", "m", "S", "p", "e", "a", "k", "V", "c", "c", "s", "\t", "C", "a", "p", "t", "u", "r", "e", "M", "o", "d", "e", "\t", "W", "i", "n", "\n">> >>]

\* i.prf: a profile without any plugin line
PrfBare ==
    [path |-> JoinPath(UkcpLocation, <<"i", ".", "p", "r", "f">>),
     lines |-> << <<"S", "e", "t", "t", "i", "n", "g", "s", "\t", "s", "e", "c", "t", "o", "r", "\t", "o", "l", "d", ".", "s", "c", "t", "\n">>,
                 <<"L", "a", "s", "t", "S", "e", "s", "s", "i", "o", "n", "\t", "p", "a", "s", "s", "w", "o", "r", "d", "\t", "p", "w", "1", "\n">> >>]

\* j.prf: a profile with eleven plugins, Plugin0 to Plugin10, all but
\* Plugin9 (C:\p9.dll) given relative to the profile
PrfMany ==
    [path |-> JoinPath(UkcpLocation, <<"j", ".", "p", "r", "f">>),
      lines |-> [n \in 1..11 |->
                  <<"P", "l", "u", "g", "i", "n", "s", "\t", "P", "l", "u", "g", "i", "n">>
                      \o IntToStr(n - 1) \o <<"\t">>
                      \o (IF n - 1 = 9 THEN <<"C", ":", "\\">> ELSE <<>>)
                      \o <<"p">> \o IntToStr(n - 1) \o <<".", "d", "l", "l", "\n">>]]

PrfInstalls ==
    { <<>>, <<PrfFresh>>, <<PrfAnn>>, <<PrfBob>>, <<PrfBare>>, <<PrfMany>>,
      <<PrfAnn, PrfBob>>, <<PrfFresh, PrfBob>> }

(***************************************************************************)
(* The .txt files and the record stores an installation can hold.          *)
(***************************************************************************)
\* b.txt: Alpha:0 | Beta:0 | Other:5
TxtB ==
    [path |-> JoinPath(UkcpLocation, <<"b", ".", "t", "x", "t">>),
     lines |-> << <<"A", "l", "p", "h", "a", ":", "0", "\n">>, <<"B", "e", "t", "a", ":", "0", "\n">>, <<"O", "t", "h", "e", "r", ":", "5", "\n">> >>]

\* k.txt: Alpha:7
TxtK ==
    [path |-> JoinPath(UkcpLocation, <<"k", ".", "t", "x", "t">>),
     lines |-> << <<"A", "l", "p", "h", "a", ":", "7", "\n">> >>]

\* x_APP_Screen.txt: m_ShowTsVccsMiniControl:0 | Zeta:1
TxtScreen ==
    [path |-> JoinPath(UkcpLocation, <<"x", "_", "A", "P", "P", "_", "S", "c", "r", "e", "e", "n", ".", "t", "x", "t">>),
     lines |-> << <<"m", "_", "S", "h", "o", "w", "T", "s", "V", "c", "c", "s", "M", "i", "n", "i", "C", "o", "n", "t", "r", "o", "l", ":", "0", "\n">>, <<"Z", "e", "t", "a", ":", "1", "\n">> >>]

\* x_APP_DL.txt: m_Column:ASSR:5:1 | END
TxtDl ==
    [path |-> JoinPath(UkcpLocation, <<"x", "_", "A", "P", "P", "_", "D", "L", ".", "t", "x", "t">>),
     lines |-> << <<"m", "_", "C", "o", "l", "u", "m", "n", ":", "A", "S", "S", "R", ":", "5", ":", "1", "\n">>, <<"E", "N", "D", "\n">> >>]

\* g.txt: Name:x | Say:y
TxtG ==
    [path |-> JoinPath(UkcpLocation, <<"g", ".", "t", "x", "t">>),
     lines |-> << <<"N", "a", "m", "e", ":", "x", "\n">>, <<"S", "a", "y", ":", "y", "\n">> >>]

\* old.txt: Stale:0
TxtOld ==
    [path |-> JoinPath(UkcpLocation, <<"o", "l", "d", ".", "t", "x", "t">>),
     lines |-> << <<"S", "t", "a", "l", "e", ":", "0", "\n">> >>]

TxtInstalls == { <<>>, <<TxtB, TxtK>>, <<TxtScreen, TxtB>>, <<TxtDl>> }

\* settings.csv as a pull leaves it: missing, the header alone, or the header
\* and the rows accepted, here of UK/b.txt: (Alpha:1, Beta:2), (Plain),
\* (Alpha:1, Plain)
RecordStores ==
    { <<>>,
      <<CsvHeader>>,
      <<CsvHeader, CsvRow(<<"U", "K", "/", "b", ".", "t", "x", "t">>, <<"A", "l", "p", "h", "a", ":", "1">>), CsvRow(<<"U", "K", "/", "b", ".", "t", "x", "t">>, <<"B", "e", "t", "a", ":", "2">>)>>,
      <<CsvHeader, CsvRow(<<"U", "K", "/", "b", ".", "t", "x", "t">>, <<"P", "l", "a", "i", "n">>)>>,
      <<CsvHeader, CsvRow(<<"U", "K", "/", "b", ".", "t", "x", "t">>, <<"A", "l", "p", "h", "a", ":", "1">>), CsvRow(<<"U", "K", "/", "b", ".", "t", "x", "t">>, <<"P", "l", "a", "i", "n">>)>> }

(***************************************************************************)
(* CurrentInstallation.user_settings, lines 366-569.                       *)
(***************************************************************************)
\* an exception leaves the method that runs, at the stage it had reached
MergeRaise(e) ==
    /\ stage' = stage
    /\ merge_exc' = e

\* the values a key of return_user_data holds: None, a string, a set of
\* strings, a list of strings
NoneValue == [t |-> "none"]

StrValue(s) == [t |-> "str", str |-> s]

SetValue(S) == [t |-> "set", set |-> S]

ListValue(q) == [t |-> "list", list |-> q]

Keys ==
    { "realname", "certificate", "password", "facility", "rating", "plugins",
      "vccs_ptt_g2a", "vccs_ptt_g2g", "vccs_capture_mode",
      "vccs_capture_device", "vccs_playback_mode", "vccs_playback_device",
      "hoppies_cpdlc_password" }

\* lines 396-410: every key None
InitialData == [key \in Keys |-> NoneValue]

\* lines 444-458: what each pattern must find at the start of the line, and
\* the shape of its group: "any" for (.*), "digits" for ([0-9]{lo,hi}),
\* "plugin" for [0-9]{1}\t([A-Z]{1}\:\\.*)
Patterns ==
    [realname |-> [prefix |-> <<"L", "a", "s", "t", "S", "e", "s", "s", "i", "o", "n", "\t", "r", "e", "a", "l", "n", "a", "m", "e", "\t">>, group |-> "any", lo |-> 0, hi |-> 0],
     certificate |-> [prefix |-> <<"L", "a", "s", "t", "S", "e", "s", "s", "i", "o", "n", "\t", "c", "e", "r", "t", "i", "f", "i", "c", "a", "t", "e", "\t">>, group |-> "digits", lo |-> 4, hi |-> 99],
     password |-> [prefix |-> <<"L", "a", "s", "t", "S", "e", "s", "s", "i", "o", "n", "\t", "p", "a", "s", "s", "w", "o", "r", "d", "\t">>, group |-> "any", lo |-> 0, hi |-> 0],
     facility |-> [prefix |-> <<"L", "a", "s", "t", "S", "e", "s", "s", "i", "o", "n", "\t", "f", "a", "c", "i", "l", "i", "t", "y", "\t">>, group |-> "digits", lo |-> 1, hi |-> 1],
     rating |-> [prefix |-> <<"L", "a", "s", "t", "S", "e", "s", "s", "i", "o", "n", "\t", "r", "a", "t", "i", "n", "g", "\t">>, group |-> "digits", lo |-> 1, hi |-> 1],
     plugins |-> [prefix |-> <<"P", "l", "u", "g", "i", "n", "s", "\t", "P", "l", "u", "g", "i", "n">>, group |-> "plugin", lo |-> 0, hi |-> 0],
     vccs_ptt_g2a |-> [prefix |-> <<"T", "e", "a", "m", "S", "p", "e", "a", "k", "V", "c", "c", "s", "\t", "T", "s", "3", "G", "2", "A", "P", "t", "t", "\t">>, group |-> "digits", lo |-> 1, hi |-> 10],
     vccs_ptt_g2g |-> [prefix |-> <<"T", "e", "a", "m", "S", "p", "e", "a", "k", "V", "c", "c", "s", "\t", "T", "s", "3", "G", "2", "G", "P", "t", "t", "\t">>, group |-> "digits", lo |-> 1, hi |-> 10],
     vccs_playback_mode |-> [prefix |-> <<"T", "e", "a", "m", "S", "p", "e", "a", "k", "V", "c", "c", "s", "\t", "P", "l", "a", "y", "b", "a", "c", "k", "M", "o", "d", "e", "\t">>, group |-> "any", lo |-> 0, hi |-> 0],
     vccs_playback_device |-> [prefix |-> <<"T", "e", "a", "m", "S", "p", "e", "a", "k", "V", "c", "c", "s", "\t", "P", "l", "a", "y", "b", "a", "c", "k", "D", "e", "v", "i", "c", "e", "\t">>, group |-> "any", lo |-> 0, hi |-> 0],
     vccs_capture_mode |-> [prefix |-> <<"T", "e", "a", "m", "S", "p", "e", "a", "k", "V", "c", "c", "s", "\t", "C", "a", "p", "t", "u", "r", "e", "M", "o", "d", "e", "\t">>, group |-> "any", lo |-> 0, hi |-> 0],
     vccs_capture_device |-> [prefix |-> <<"T", "e", "a", "m", "S", "p", "e", "a", "k", "V", "c", "c", "s", "\t", "C", "a", "p", "t", "u", "r", "e", "D", "e", "v", "i", "c", "e", "\t">>, group |-> "any", lo |-> 0, hi |-> 0],
     hoppies_cpdlc_password |-> [prefix |-> <<"v", "S", "M", "R", ":", "c", "p", "d", "l", "c", "_", "p", "a", "s", "s", "w", "o", "r", "d", ":">>, group |-> "any", lo |-> 0, hi |-> 0]]

\* the longest run of digits at the start of s, at most hi long
DigitRun(s, hi) ==
    LET n == CHOOSE k \in 0..Len(s) :
                 /\ k <= hi
                 /\ \A j \in 1..k : s[j] \in DigitSet
                 /\ (k = hi \/ k = Len(s) \/ s[k + 1] \notin DigitSet)
    IN  SubSeq(s, 1, n)

\* group(1) of a group shape matched against the rest of the line: the empty
\* set when it does not match
Group(shape, rest) ==
    IF shape.group = "any" THEN {SubSeq(rest, 1, DotStarEnd(rest))}
    ELSE IF shape.group = "digits"
      THEN (IF Len(DigitRun(rest, shape.hi)) >= shape.lo /\ Len(DigitRun(rest, shape.hi)) >= 1
              THEN {DigitRun(rest, shape.hi)} ELSE {})
    ELSE IF /\ Len(rest) >= 5
            /\ rest[1] \in DigitSet
            /\ rest[2] = "\t"
            /\ \E k \in DOMAIN UpperLetters : UpperLetters[k] = rest[3]
            /\ rest[4] = ":"
            /\ rest[5] = "\\"
      THEN {SubSeq(rest, 3, DotStarEnd(rest))}
    ELSE {}

\* lines 486-488: re.match(pattern, line) and its group(1)
MatchKey(key, line) ==
    IF StartsWith(line, Patterns[key].prefix)
      THEN Group(Patterns[key], SubSeq(line, Len(Patterns[key].prefix) + 1, Len(line)))
      ELSE {}

\* lines 478-488: the values found in the .prf files, key by key
Discovered(files) ==
    [key \in Keys |->
        UNION {UNION {MatchKey(key, files[f].lines[l]) : l \in DOMAIN files[f].lines} :
                 f \in DOMAIN files}]

\* what the user types: the answer to the consent question, a new entry in a
\* menu, a password at a prompt, and at manual entry a name, certificates
\* and ratings (tried until one is accepted)
Consents == { <<"y">>, <<"n">>, <<>> }

NewEntry == <<"N", "e", "w">>

PasswordTyped == <<"p", "w", "9">>

NameTyped == <<"Z", "e", "d">>

CidTyped == { <<"7", "7", "7", "7", "7", "7", "7">>, <<"1", "2", "3", "4", "5", "6", "x">>, <<"1", "2", "3", "4", "5">> }

RatingTyped == { <<"4">>, <<"x">> }

\* lines 375 and 384: re.match(r"[\d]{6,8}", s) and re.match(r"[\d]{1}", s)
CidAccepted(s) == Len(DigitRun(s, 8)) >= 6

RatingAccepted(s) == Len(DigitRun(s, 1)) >= 1

\* manual_entry, lines 366-388, as user_settings calls it: all_data is True
\* in every call, so all four values are asked for
ManualEntry(data, cid, rating) ==
    [data EXCEPT !["realname"] = StrValue(NameTyped),
                 !["certificate"] = StrValue(cid),
                 !["password"] = StrValue(PasswordTyped),
                 !["rating"] = StrValue(rating)]

\* menu_option, lines 412-433: one of the options, or a new entry
MenuOption(options) == options \cup {NewEntry}

\* lines 492-498: a key other than password and plugins
Selected(values) ==
    IF Cardinality(values) > 1 THEN {StrValue(v) : v \in MenuOption(values)}
    ELSE IF values = {} THEN {NoneValue}
    ELSE {StrValue(v) : v \in values}

\* lines 499-507: the password; with no password found the key is left as it
\* is, the empty set of line 464
SelectedPassword(values) ==
    IF Cardinality(values) > 1 THEN {StrValue(PasswordTyped)}
    ELSE IF Cardinality(values) = 1 THEN {StrValue(v) : v \in values}
    ELSE {SetValue({})}

\* line 533
NoPlugins == <<"N", "o", " ", "c", "u", "s", "t", "o", "m", " ", "(", "n", "o", "n", " ", "U", "K", "C", "P", ")", " ", "p", "l", "u", "g", "i", "n", "s", " ", "w", "e", "r", "e", " ", "d", "e", "t", "e", "c", "t", "e", "d">>

\* lines 508-535: the plugins the user accepted, in the order the set was
\* gone through
PluginOut(plugins) ==
    IF plugins = {} THEN {<<NoPlugins>>}
    ELSE UNION {{q \in [1..n -> plugins] : \A i, j \in 1..n : i # j => q[i] # q[j]} :
                  n \in 0..Cardinality(plugins)}

\* lines 491-535: return_user_data after the loop over the keys
Processed(found) ==
    {[realname |-> rn, certificate |-> ce, password |-> pw, facility |-> fa,
      rating |-> ra, plugins |-> ListValue(out),
      vccs_ptt_g2a |-> ga, vccs_ptt_g2g |-> gg,
      vccs_capture_mode |-> cm, vccs_capture_device |-> cd,
      vccs_playback_mode |-> pm, vccs_playback_device |-> pd,
      hoppies_cpdlc_password |-> hp] :
        rn \in Selected(found["realname"]),
        ce \in Selected(found["certificate"]),
        pw \in SelectedPassword(found["password"]),
        fa \in Selected(found["facility"]),
        ra \in Selected(found["rating"]),
        out \in PluginOut(found["plugins"]),
        ga \in Selected(found["vccs_ptt_g2a"]),
        gg \in Selected(found["vccs_ptt_g2g"]),
        cm \in Selected(found["vccs_capture_mode"]),
        cd \in Selected(found["vccs_capture_device"]),
        pm \in Selected(found["vccs_playback_mode"]),
        pd \in Selected(found["vccs_playback_device"]),
        hp \in Selected(found["hoppies_cpdlc_password"])}

\* lines 538-545: manual entry when one of the four is None
CheckNone(data, cid, rating) ==
    IF \/ data["realname"] = NoneValue
       \/ data["certificate"] = NoneValue
       \/ data["password"] = NoneValue
       \/ data["rating"] = NoneValue
      THEN ManualEntry(data, cid, rating)
      ELSE data

\* lines 524-530: re.match(r".*VFPC\.dll", plugin) for an accepted plugin
UsesPlugin(data, dll) ==
    /\ data["plugins"].t = "list"
    /\ data["plugins"].list # <<NoPlugins>>
    /\ \E i \in DOMAIN data["plugins"].list : Contains(data["plugins"].list[i], dll)

\* what user_settings can return for the .prf files given, with the two
\* plugin flags it sets
UserSettingsReturns(files, consent) ==
    {[data |-> d, plugin_vfpc |-> UsesPlugin(d, <<"V", "F", "P", "C", ".", "d", "l", "l">>),
      plugin_cdm |-> UsesPlugin(d, <<"C", "D", "M", ".", "d", "l", "l">>)] :
        d \in IF Upper(consent) = <<"N">>
                THEN {ManualEntry(InitialData, cid, rating) :
                        cid \in {c \in CidTyped : CidAccepted(c)},
                        rating \in {r \in RatingTyped : RatingAccepted(r)}}
                ELSE {CheckNone(p, cid, rating) :
                        p \in Processed(Discovered(files)),
                        cid \in {c \in CidTyped : CidAccepted(c)},
                        rating \in {r \in RatingTyped : RatingAccepted(r)}}}

\* lines 426-431: a menu is shown (some key other than password and
\* plugins has more than one value) and the answer, such as "1n", passes the
\* pattern [nN0-9]{1,} but is no number: int(choice) raises ValueError
MenuRaises(files, consent, choice) ==
    /\ Upper(consent) # <<"N">>
    /\ \E key \in Keys \ {"password", "plugins"} :
           Cardinality(Discovered(files)[key]) > 1
    /\ \A i \in DOMAIN choice : choice[i] \in DigitSet \cup {"n", "N"}
    /\ Upper(choice) # <<"N">>
    /\ \E i \in DOMAIN choice : choice[i] \notin DigitSet

\* user_settings: the consent question, the search of the .prf files or
\* manual entry, the menus, the plugin questions and the check for None
UserSettings ==
    /\ stage = "user_settings"
    /\ merge_exc = "none"
    /\ \E consent \in Consents, choice \in {<<"1">>, <<"1", "n">>} :
         IF MenuRaises(prf_fs, consent, choice)
           THEN /\ MergeRaise("ValueError")
                /\ UNCHANGED <<settings_prf, plugin_vfpc, plugin_cdm>>
           ELSE \E r \in UserSettingsReturns(prf_fs, consent) :
                    /\ settings_prf' = r.data
                    /\ plugin_vfpc' = r.plugin_vfpc
                    /\ plugin_cdm' = r.plugin_cdm
                    /\ stage' = "returned"
                    /\ merge_exc' = merge_exc
    /\ UNCHANGED <<sct_fs, aux_fs, asr_fs, prf_fs, txt_fs, sct_file, idx, before>>
    /\ UNCHANGED <<airacVars, pullVars, setupVars>>

\* the installation when user_settings is called
SettingsInit ==
    /\ stage = "user_settings"
    /\ merge_exc = "none"
    /\ sct_fs = <<>>
    /\ aux_fs = {}
    /\ asr_fs = <<>>
    /\ prf_fs \in PrfInstalls
    /\ txt_fs = <<>>
    /\ settings_prf = InitialData
    /\ plugin_vfpc = FALSE
    /\ plugin_cdm = FALSE
    /\ sct_file = <<>>
    /\ idx = 0
    /\ before = [sct_fs |-> <<>>, aux_fs |-> {}, asr_fs |-> <<>>, prf_fs |-> <<>>,
                 txt_fs |-> <<>>]

SettingsNext == UserSettings

(***************************************************************************)
(* apply_settings, lines 590-685.                                          *)
(***************************************************************************)
\* the profiles apply_settings finds, with what user_settings returned from
\* them before the pull: the profiles as they were searched, or, put back
\* by the pull, as the pack ships them
MergeProfiles ==
    UNION {{[found |-> files, data |-> r.data, plugin_vfpc |-> r.plugin_vfpc,
             plugin_cdm |-> r.plugin_cdm] :
               r \in UNION {UserSettingsReturns(files, consent) : consent \in Consents}} :
             files \in {<<PrfFresh>>, <<PrfAnn>>, <<PrfBob>>, <<PrfBare>>, <<PrfMany>>,
                        <<PrfFresh, PrfBob>>}}

\* an order in which settings.csv is replayed before the profiles are rewritten
MutStageAfterTxtFirst(s) ==
    CASE s = "get_sector_file" -> "asr_sector_file"
      [] s = "asr_sector_file" -> "txt_files"
      [] s = "txt_files" -> "prf_files"
      [] OTHER -> "done"

\* lines 652 and 827-832: get_sector_file, asr_sector_file, prf_files,
\* txt_files are called in this order, and apply_settings ends
StageAfter(s) ==
    CASE s = "get_sector_file" -> "asr_sector_file"
      [] s = "asr_sector_file" -> "prf_files"
      [] s = "prf_files" -> "txt_files"
      [] OTHER -> "done"

\* the update is not run
MergeIdle ==
    /\ stage = "idle"
    /\ merge_exc = "none"
    /\ sct_fs = <<>>
    /\ aux_fs = {}
    /\ asr_fs = <<>>
    /\ prf_fs = <<>>
    /\ txt_fs = <<>>
    /\ settings_prf = InitialData
    /\ plugin_vfpc = FALSE
    /\ plugin_cdm = FALSE
    /\ sct_file = <<>>
    /\ idx = 0
    /\ before = [sct_fs |-> <<>>, aux_fs |-> {}, asr_fs |-> <<>>, prf_fs |-> <<>>,
                 txt_fs |-> <<>>]

\* apply_settings is called on an installation
MergeInit ==
    /\ stage = "get_sector_file"
    /\ merge_exc = "none"
    /\ sct_fs \in SectorInstalls
    /\ aux_fs = UNION {AuxOf(sct_fs[i]) : i \in {j \in DOMAIN sct_fs : sct_fs[j] # SctStray}}
    /\ asr_fs \in AsrInstalls
    /\ \E m \in MergeProfiles :
           /\ prf_fs \in {m.found, <<PrfFresh>>}
           /\ settings_prf = m.data
           /\ plugin_vfpc = m.plugin_vfpc
           /\ plugin_cdm = m.plugin_cdm
    /\ sct_file = <<>>
    /\ idx = 0
    /\ txt_fs \in TxtInstalls
    /\ before = [sct_fs |-> sct_fs, aux_fs |-> aux_fs, asr_fs |-> asr_fs,
                 prf_fs |-> prf_fs, txt_fs |-> txt_fs]

\* get_sector_file returns
SectorFileReturn(path) ==
    /\ stage' = StageAfter("get_sector_file")
    /\ sct_file' = path
    /\ idx' = 1
    /\ merge_exc' = merge_exc

\* get_sector_file, lines 593-650: one pass of its loop.  No .sct file
\* counts as the one file "*"; one file is returned, after the offer to
\* download the current release when its path does not name the current
\* cycle; with more than one the sector data of the first is removed and the
\* search starts again.
GetSectorFile ==
    /\ stage = "get_sector_file"
    /\ merge_exc = "none"
    /\ LET sector_file == IF Len(sct_fs) = 0 THEN << <<"*">> >> ELSE sct_fs
           sector_fn   == IF Len(sct_fs) = 0 THEN << <<"*">> >>
                          ELSE [i \in DOMAIN sct_fs |-> FileName(sct_fs[i])]
           old         == SectorData(BaseName(sector_fn[1]))
           latest      == JoinPath(SectorDir, <<"U", "K", "_">> \o AiracFormat \o <<".", "s", "c", "t">>)
       IN  IF Len(sector_file) = 1
             THEN IF ~Contains(sector_file[1], AiracFormat)
                    THEN \E dl_sector \in DlAnswers :
                           IF Upper(dl_sector) # <<"N">>
                             THEN \E fetched \in BOOLEAN :
                                    IF ~fetched
                                      THEN /\ MergeRaise("DownloadError")
                                           /\ UNCHANGED <<sct_fs, aux_fs, sct_file, idx>>
                                      ELSE LET extracted == SectorFs \cup {latest} \cup AuxOf(latest)
                                               left      == RemoveEach(extracted, old)
                                           IN  /\ sct_fs' = SelectSeq(sct_fs \o <<latest>>, LAMBDA p : p \in left.fs)
                                               /\ aux_fs' = (aux_fs \cup AuxOf(latest)) \cap left.fs
                                               /\ IF left.ok
                                                    THEN SectorFileReturn(latest)
                                                    ELSE /\ MergeRaise("FileNotFoundError")
                                                         /\ UNCHANGED <<sct_file, idx>>
                             ELSE /\ SectorFileReturn(sector_file[1])
                                  /\ UNCHANGED <<sct_fs, aux_fs>>
                    ELSE /\ SectorFileReturn(sector_file[1])
                         /\ UNCHANGED <<sct_fs, aux_fs>>
             ELSE LET left == RemoveEach(SectorFs, old)
                  IN  /\ sct_fs' = SelectSeq(sct_fs, LAMBDA p : p \in left.fs)
                      /\ aux_fs' = aux_fs \cap left.fs
                      /\ IF left.ok
                           THEN UNCHANGED <<stage, merge_exc>>
                           ELSE MergeRaise("FileNotFoundError")
                      /\ UNCHANGED <<sct_file, idx>>
    /\ UNCHANGED <<asr_fs, prf_fs, txt_fs, settings_prf, plugin_vfpc, plugin_cdm,
                   before>>
    /\ UNCHANGED <<airacVars, pullVars, setupVars>>

\* asr_sector_file, lines 659-662: the two lines and the escaped replacement
SectorFileLine == <<"S", "E", "C", "T", "O", "R", "F", "I", "L", "E", ":">> \o sct_file

SectorTitleLine == <<"S", "E", "C", "T", "O", "R", "T", "I", "T", "L", "E", ":">> \o FileName(sct_file)

\* lines 667-671: the line after the two substitutions
AsrContent(line) ==
    LET sf_replace == Replace(SectorFileLine, "\\", <<"\\", "\\">>)
        content    == ReSubLine(<<"S", "E", "C", "T", "O", "R", "F", "I", "L", "E", ":">>, sf_replace, line)
    IN  IF content = line
          THEN ReSubLine(<<"S", "E", "C", "T", "O", "R", "T", "I", "T", "L", "E", ":">>, SectorTitleLine, line)
          ELSE content

\* lines 664-685: the file after asr_sector_file ran on it
AsrRewritten(lines) ==
    LET chk     == \E i \in DOMAIN lines : AsrContent(lines[i]) # lines[i]
        written == [i \in DOMAIN lines |-> AsrContent(lines[i])]
    IN  IF ~chk
          THEN AppendLines(written, <<SectorFileLine \o <<"\n">>, SectorTitleLine \o <<"\n">>>>)
          ELSE written

\* asr_sector_file under iter_files(".asr", "r+"): the next .asr file is
\* rewritten; after the last one prf_files begins
AsrSectorFile ==
    /\ stage = "asr_sector_file"
    /\ merge_exc = "none"
    /\ IF idx <= Len(asr_fs)
         THEN /\ asr_fs' = [asr_fs EXCEPT ![idx].lines = AsrRewritten(@)]
              /\ idx' = idx + 1
              /\ stage' = stage
         ELSE /\ stage' = StageAfter("asr_sector_file")
              /\ idx' = 1
              /\ asr_fs' = asr_fs
    /\ UNCHANGED <<merge_exc, sct_fs, aux_fs, prf_fs, txt_fs, settings_prf,
                   plugin_vfpc, plugin_cdm, sct_file, before>>
    /\ UNCHANGED <<airacVars, pullVars, setupVars>>

(***************************************************************************)
(* apply_settings.prf_files, lines 687-744.                                *)
(***************************************************************************)
\* f"{value}" for a value of settings_prf
Format(v) ==
    IF v.t = "str" THEN v.str
    ELSE IF v.t = "none" THEN <<"N", "o", "n", "e">>
    ELSE <<"s", "e", "t", "(", ")">>

\* line 705: re.match(r"^Plugins\tPlugin([\d]{1})\t.*", line)
PluginChk(line) ==
    /\ StartsWith(line, <<"P", "l", "u", "g", "i", "n", "s", "\t", "P", "l", "u", "g", "i", "n">>)
    /\ Len(line) >= 16
    /\ line[15] \in DigitSet
    /\ line[16] = "\t"

\* lines 695-707: plugin_count, the digits group(1) gave
PluginCount(lines) == {lines[i][15] : i \in {j \in DOMAIN lines : PluginChk(lines[j])}}

\* line 724: int(sorted(plugin_count)[-1]) + 1
StartCountPlugin(plugin_count) ==
    DigitVal(CHOOSE c \in plugin_count :
                 \A d \in plugin_count : DigitVal(d) <= DigitVal(c)) + 1

\* line 736 with "or" for "and"
MutAudioAny(data) ==
    \/ data["vccs_playback_mode"] # NoneValue
    \/ data["vccs_playback_device"] # NoneValue
    \/ data["vccs_capture_mode"] # NoneValue
    \/ data["vccs_capture_device"] # NoneValue

\* line 736: all four audio settings are not None
AudioComplete(data) ==
    /\ data["vccs_playback_mode"] # NoneValue
    /\ data["vccs_playback_device"] # NoneValue
    /\ data["vccs_capture_mode"] # NoneValue
    /\ data["vccs_capture_device"] # NoneValue

\* lines 715-740: the list apply_settings for a file whose plugin numbers
\* start at start_count_plugin
ApplySettingsList(data, start_count_plugin) ==
    << <<"L", "a", "s", "t", "S", "e", "s", "s", "i", "o", "n", "\t", "r", "e", "a", "l", "n", "a", "m", "e", "\t">> \o Format(data["realname"]),
       <<"L", "a", "s", "t", "S", "e", "s", "s", "i", "o", "n", "\t", "c", "e", "r", "t", "i", "f", "i", "c", "a", "t", "e", "\t">> \o Format(data["certificate"]),
       <<"L", "a", "s", "t", "S", "e", "s", "s", "i", "o", "n", "\t", "p", "a", "s", "s", "w", "o", "r", "d", "\t">> \o Format(data["password"]),
       <<"L", "a", "s", "t", "S", "e", "s", "s", "i", "o", "n", "\t", "r", "a", "t", "i", "n", "g", "\t">> \o Format(data["rating"]) >>
    \o [count \in DOMAIN data["plugins"].list |->
           <<"P", "l", "u", "g", "i", "n", "s", "\t", "P", "l", "u", "g", "i", "n">> \o IntToStr(start_count_plugin + count - 1)
               \o <<"\t">> \o data["plugins"].list[count]]
    \o << <<"T", "e", "a", "m", "S", "p", "e", "a", "k", "V", "c", "c", "s", "\t", "T", "s", "3", "N", "i", "c", "k", "N", "a", "m", "e", "\t">> \o Format(data["certificate"]),
          <<"T", "e", "a", "m", "S", "p", "e", "a", "k", "V", "c", "c", "s", "\t", "T", "s", "V", "c", "c", "s", "M", "i", "n", "i", "C", "o", "n", "t", "r", "o", "l", "X", "\t", "1", "5", "8", "1">>,
          <<"T", "e", "a", "m", "S", "p", "e", "a", "k", "V", "c", "c", "s", "\t", "T", "s", "V", "c", "c", "s", "M", "i", "n", "i", "C", "o", "n", "t", "r", "o", "l", "Y", "\t", "1", "9", "8">> >>
    \o (IF data["vccs_ptt_g2a"] # NoneValue
          THEN << <<"T", "e", "a", "m", "S", "p", "e", "a", "k", "V", "c", "c", "s", "\t", "T", "s", "3", "G", "2", "A", "P", "t", "t", "\t">> \o Format(data["vccs_ptt_g2a"]) >>
          ELSE <<>>)
    \o (IF data["vccs_ptt_g2g"] # NoneValue
          THEN << <<"T", "e", "a", "m", "S", "p", "e", "a", "k", "V", "c", "c", "s", "\t", "T", "s", "3", "G", "2", "G", "P", "t", "t", "\t">> \o Format(data["vccs_ptt_g2g"]) >>
          ELSE <<>>)
    \o (IF AudioComplete(data)
          THEN << <<"T", "e", "a", "m", "S", "p", "e", "a", "k", "V", "c", "c", "s", "\t", "P", "l", "a", "y", "b", "a", "c", "k", "M", "o", "d", "e", "\t">> \o Format(data["vccs_playback_mode"]),
                  <<"T", "e", "a", "m", "S", "p", "e", "a", "k", "V", "c", "c", "s", "\t", "P", "l", "a", "y", "b", "a", "c", "k", "D", "e", "v", "i", "c", "e", "\t">> \o Format(data["vccs_playback_device"]),
                  <<"T", "e", "a", "m", "S", "p", "e", "a", "k", "V", "c", "c", "s", "\t", "C", "a", "p", "t", "u", "r", "e", "M", "o", "d", "e", "\t">> \o Format(data["vccs_capture_mode"]),
                  <<"T", "e", "a", "m", "S", "p", "e", "a", "k", "V", "c", "c", "s", "\t", "C", "a", "p", "t", "u", "r", "e", "D", "e", "v", "i", "c", "e", "\t">> \o Format(data["vccs_capture_device"]) >>
          ELSE <<>>)

\* lines 691-744: the file after prf_files ran on it, and the exception that
\* ended it: the sector line is replaced and the file written back before
\* the settings are put together, so sorted(plugin_count)[-1] without any
\* plugin line (IndexError) and enumerate(None) (TypeError) leave the file
\* rewritten with nothing appended
PrfRewritten(lines) ==
    LET sector_file == <<"S", "e", "t", "t", "i", "n", "g", "s", "\t", "s", "e", "c", "t", "o", "r", "\t">> \o sct_file
        sf_replace  == Replace(sector_file, "\\", <<"\\", "\\">>)
        written     == [i \in DOMAIN lines |->
                           ReSubLine(<<"S", "e", "t", "t", "i", "n", "g", "s", "\t", "s", "e", "c", "t", "o", "r", "\t">>, sf_replace, lines[i])]
        settings    == ApplySettingsList(settings_prf, StartCountPlugin(PluginCount(lines)))
    IN  IF PluginCount(lines) = {} THEN [lines |-> written, exc |-> "IndexError"]
        ELSE IF settings_prf["plugins"].t # "list"
          THEN [lines |-> written, exc |-> "TypeError"]
        ELSE [lines |-> AppendLines(written,
                            << <<"\n">> >> \o [k \in DOMAIN settings |-> settings[k] \o <<"\n">>]),
              exc |-> "none"]

\* prf_files under iter_files(".prf", "r+"): the next .prf file is
\* rewritten; after the last one txt_files begins
PrfFiles ==
    /\ stage = "prf_files"
    /\ merge_exc = "none"
    /\ IF idx <= Len(prf_fs)
         THEN LET out == PrfRewritten(prf_fs[idx].lines)
              IN  /\ prf_fs' = [prf_fs EXCEPT ![idx].lines = out.lines]
                  /\ IF out.exc = "none"
                       THEN /\ idx' = idx + 1
                            /\ UNCHANGED <<stage, merge_exc>>
                       ELSE /\ MergeRaise(out.exc)
                            /\ idx' = idx
         ELSE /\ stage' = StageAfter("prf_files")
              /\ idx' = 1
              /\ UNCHANGED <<prf_fs, merge_exc>>
    /\ UNCHANGED <<sct_fs, aux_fs, asr_fs, txt_fs, settings_prf, plugin_vfpc,
                   plugin_cdm, sct_file, before>>
    /\ UNCHANGED <<airacVars, pullVars, setupVars>>

(***************************************************************************)
(* apply_settings.txt_files, lines 746-825.                                *)
(***************************************************************************)
\* the text of the lines given, and a text cut into lines as readlines()
\* cuts it
RECURSIVE Flatten(_)
Flatten(lines) == IF lines = <<>> THEN <<>> ELSE Head(lines) \o Flatten(Tail(lines))

RECURSIVE SplitLines(_)
SplitLines(text) ==
    IF text = <<>> THEN <<>>
    ELSE <<SubSeq(text, 1, DotStarEnd(text) + (IF DotStarEnd(text) < Len(text) THEN 1 ELSE 0))>>
           \o SplitLines(SubSeq(text, DotStarEnd(text) + 2, Len(text)))

\* re.match(r"^.*<stem>.<ext>", path): stem, any one character, ext
MatchesName(path, stem, ext) ==
    \E i \in 0..Len(path) :
        /\ Len(path) >= i + Len(stem) + 1 + Len(ext)
        /\ SubSeq(path, i + 1, i + Len(stem)) = stem
        /\ SubSeq(path, i + Len(stem) + 2, i + Len(stem) + 1 + Len(ext)) = ext

\* re.sub(r"^<prefix>", repl, line): the prefix alone is replaced
ReSubPrefix(prefix, repl, line) ==
    IF StartsWith(line, prefix)
      THEN ExpandTemplate(repl) \o SubSeq(line, Len(prefix) + 1, Len(line))
      ELSE line

\* lines 752-754: re.sub(r"^m\_ShowTsVccsMiniControl\:[1|0]{1}", show_vccs, line)
ShowVccs(line) ==
    LET prefix == <<"m", "_", "S", "h", "o", "w", "T", "s", "V", "c", "c", "s", "M", "i", "n", "i", "C", "o", "n", "t", "r", "o", "l", ":">>
    IN  IF /\ StartsWith(line, prefix)
           /\ Len(line) > Len(prefix)
           /\ line[Len(prefix) + 1] \in {"1", "|", "0"}
          THEN <<"m", "_", "S", "h", "o", "w", "T", "s", "V", "c", "c", "s", "M", "i", "n", "i", "C", "o", "n", "t", "r", "o", "l", ":", "1">> \o SubSeq(line, Len(prefix) + 2, Len(line))
          ELSE line

\* lines 760-773
SetSquawkUkcp == <<"m", "_", "C", "o", "l", "u", "m", "n", ":", "A", "S", "S", "R", ":", "5", ":", "1", ":", "6", "0", ":", "9", "0", "0", "0", ":", "9", "0", "2", "2", ":", "1", ":", ":", "U", "K", " ", "C", "o", "n", "t", "r", "o", "l", "l", "e", "r", " ", "P", "l", "u", "g", "i", "n", ":", "U", "K", " ", "C", "o", "n", "t", "r", "o", "l", "l", "e", "r", " ", "P", "l", "u", "g", "i", "n", ":", "0", ":", "0", ".", "0">>

SetVfpc == <<"m", "_", "C", "o", "l", "u", "m", "n", ":", "V", "F", "P", "C", ":", "5", ":", "0", ":", "1", ":", "1", "0", "0", ":", "9", "0", "0", "4", ":", "1", ":", "V", "F", "P", "C", " ", "(", "U", "K", ")", ":", "V", "F", "P", "C", " ", "(", "U", "K", ")", ":", "U", "K", " ", "C", "o", "n", "t", "r", "o", "l", "l", "e", "r", " ", "P", "l", "u", "g", "i", "n", ":", "0", ":", "0", ".", "0">>

SetCdm ==
    << <<"m", "_", "C", "o", "l", "u", "m", "n", ":", "E", "O", "B", "T", ":", "5", ":", "1", ":", "1", ":", "1", "2", "0", ":", "1", "0", "0", ":", "1", ":", "C", "D", "M", " ", "P", "l", "u", "g", "i", "n", ":", "C", "D", "M", " ", "P", "l", "u", "g", "i", "n", ":", "C", "D", "M", " ", "P", "l", "u", "g", "i", "n", ":", "0", ":", "0", ".", "0">>,
       <<"m", "_", "C", "o", "l", "u", "m", "n", ":", "E", ":", "2", ":", "1", ":", "9", ":", "0", ":", "1", "2", "3", ":", "1", ":", "C", "D", "M", " ", "P", "l", "u", "g", "i", "n", ":", ":", "C", "D", "M", " ", "P", "l", "u", "g", "i", "n", ":", "0", ":", "0", ".", "0">>,
       <<"m", "_", "C", "o", "l", "u", "m", "n", ":", "T", "O", "B", "T", ":", "5", ":", "1", ":", "4", ":", "1", "2", "1", ":", "1", "1", "5", ":", "1", ":", "C", "D", "M", " ", "P", "l", "u", "g", "i", "n", ":", "C", "D", "M", " ", "P", "l", "u", "g", "i", "n", ":", "C", "D", "M", " ", "P", "l", "u", "g", "i", "n", ":", "0", ":", "0", ".", "0">>,
       <<"m", "_", "C", "o", "l", "u", "m", "n", ":", "T", "S", "A", "T", ":", "5", ":", "1", ":", "2", ":", "0", ":", "0", ":", "1", ":", "C", "D", "M", " ", "P", "l", "u", "g", "i", "n", ":", ":", ":", "0", ":", "0", ".", "0">>,
       <<"m", "_", "C", "o", "l", "u", "m", "n", ":", "T", "T", "O", "T", ":", "5", ":", "1", ":", "3", ":", "0", ":", "0", ":", "1", ":", "C", "D", "M", " ", "P", "l", "u", "g", "i", "n", ":", ":", ":", "0", ":", "0", ".", "0">>,
       <<"m", "_", "C", "o", "l", "u", "m", "n", ":", "T", "S", "A", "C", ":", "5", ":", "1", ":", "5", ":", "1", "2", "2", ":", "1", "0", "4", ":", "1", ":", "C", "D", "M", " ", "P", "l", "u", "g", "i", "n", ":", "C", "D", "M", " ", "P", "l", "u", "g", "i", "n", ":", "C", "D", "M", " ", "P", "l", "u", "g", "i", "n", ":", "0", ":", "0", ".", "0">>,
       <<"m", "_", "C", "o", "l", "u", "m", "n", ":", "A", "S", "A", "T", ":", "5", ":", "1", ":", "6", ":", "0", ":", "0", ":", "1", ":", "C", "D", "M", " ", "P", "l", "u", "g", "i", "n", ":", ":", ":", "0", ":", "0", ".", "0">>,
       <<"m", "_", "C", "o", "l", "u", "m", "n", ":", "A", "S", "R", "T", ":", "5", ":", "1", ":", "7", ":", "1", "0", "7", ":", "0", ":", "1", ":", "C", "D", "M", " ", "P", "l", "u", "g", "i", "n", ":", "C", "D", "M", " ", "P", "l", "u", "g", "i", "n", ":", ":", "0", ":", "0", ".", "0">>,
       <<"m", "_", "C", "o", "l", "u", "m", "n", ":", "C", "T", "O", "T", ":", "5", ":", "1", ":", "1", "0", ":", "1", "0", "8", ":", "0", ":", "1", ":", "C", "D", "M", " ", "P", "l", "u", "g", "i", "n", ":", "C", "D", "M", " ", "P", "l", "u", "g", "i", "n", ":", ":", "0", ":", "0", ".", "0">>,
       <<"m", "_", "C", "o", "l", "u", "m", "n", ":", "S", "T", "U", "P", ":", "7", ":", "1", ":", "9", ":", "1", "0", "6", ":", "0", ":", "1", ":", ":", "C", "D", "M", " ", "P", "l", "u", "g", "i", "n", ":", ":", "0", ":", "0", ".", "0">> >>

\* the state of one .txt file under txt_files: the lines the file holds, whether
\* anything was written yet (the position is then at the end of the file, else
\* at its start), the local lines, and the local search_string (no element
\* while it is unbound)
TxtOpened(lines) ==
    [content |-> lines, written |-> FALSE, lines |-> lines, search_string |-> <<>>,
     exc |-> "none"]

\* a loop that writes one string per line at the position and truncates
WritePass(st, out) ==
    [st EXCEPT !.content = IF st.written THEN SplitLines(Flatten(st.content \o out))
                           ELSE SplitLines(Flatten(out)),
               !.written = TRUE]

\* lines 751-756: the screen settings files
ScreenPass(file_path, st) ==
    IF MatchesName(file_path, <<"_", "A", "P", "P", "_", "S", "c", "r", "e", "e", "n">>, <<"t", "x", "t">>)
      THEN WritePass(st, [i \in DOMAIN st.lines |-> ShowVccs(st.lines[i])])
      ELSE st

\* lines 782-789: the file is read back and cleared, and written with the
\* VFPC column before END
VfpcPass(st) ==
    LET lines == st.content
    IN  [st EXCEPT !.lines = lines,
                   !.content = SplitLines(Flatten(
                       [i \in DOMAIN lines |->
                           ReSubPrefix(<<"E", "N", "D">>, SetVfpc \o <<"\n", "E", "N", "D">>, lines[i])]))]

\* lines 792-802: the file is read back and cleared, and written with the
\* first CDM column in place of END, then the other columns and END
CdmPass(st) ==
    LET lines == st.content
    IN  [st EXCEPT !.lines = lines,
                   !.content = SplitLines(Flatten(
                       [i \in DOMAIN lines |-> ReSubPrefix(<<"E", "N", "D">>, SetCdm[1], lines[i])]
                       \o [k \in 1..(Len(SetCdm) - 1) |-> SetCdm[k + 1] \o <<"\n">>]
                       \o << <<"E", "N", "D", "\n">> >>))]

\* lines 759-802: the departure list files
DlPass(file_path, st) ==
    IF MatchesName(file_path, <<"_", "A", "P", "P", "_", "D", "L">>, <<"t", "x", "t">>)
      THEN LET assr == WritePass(st, [i \in DOMAIN st.lines |->
                                        ReSubPrefix(<<"m", "_", "C", "o", "l", "u", "m", "n", ":", "A", "S", "S", "R">>, SetSquawkUkcp, st.lines[i])])
               vfpc == IF plugin_vfpc THEN VfpcPass(assr) ELSE assr
           IN  IF plugin_cdm THEN CdmPass(vfpc) ELSE vfpc
      ELSE st

\* csv.DictReader on a line of settings.csv after the header: the fields at
\* the commas, the first as filepath and the second as data
CsvFields(row) ==
    LET fields == Split(row, ",")
    IN  [filepath |-> fields[1],
         data |-> IF Len(fields) >= 2 THEN <<fields[2]>> ELSE <<>>]

\* line 808: row["filepath"].replace("/", "\\") in str(file_path)
RowMatches(row, file_path) ==
    Contains(file_path, Replace(CsvFields(row).filepath, "/", <<"\\">>))

\* lines 812-818: search_string after the row: set from one or two tokens, or
\* left as it was (only an error is logged)
SearchString(data, search_string) ==
    LET data_count == Split(data, ":")
    IN  IF Len(data_count) = 2 THEN <<data_count[1]>>
        ELSE IF Len(data_count) > 2 THEN <<data_count[1] \o <<":">> \o data_count[2]>>
        ELSE search_string

\* lines 807-825: the rows of settings.csv applied in turn; a row whose data
\* gives no search_string is applied with the one left by an earlier row of
\* this file, and raises UnboundLocalError when there is none
RECURSIVE Replay(_, _, _)
Replay(rows, file_path, st) ==
    IF rows = <<>> \/ st.exc # "none" THEN st
    ELSE IF Head(rows) = <<>> \/ ~RowMatches(Head(rows), file_path)
      THEN Replay(Tail(rows), file_path, st)
    ELSE IF CsvFields(Head(rows)).data = <<>>
      THEN [st EXCEPT !.exc = "AttributeError"]
    ELSE LET data == CsvFields(Head(rows)).data[1]
             key  == SearchString(data, st.search_string)
         IN  IF key = <<>> THEN [st EXCEPT !.exc = "UnboundLocalError"]
             ELSE Replay(Tail(rows), file_path,
                    WritePass([st EXCEPT !.search_string = key],
                              [i \in DOMAIN st.lines |->
                                  ReSubLine(key[1] \o <<":">>, data, st.lines[i])]))

\* lines 751-825: the file after txt_files ran on it, with the record store
\* given (no line: there is no settings.csv, and open raises)
TxtRewritten(file_path, lines, store) ==
    LET st == DlPass(file_path, ScreenPass(file_path, TxtOpened(lines)))
    IN  IF store = <<>> THEN [st EXCEPT !.exc = "FileNotFoundError"]
        ELSE Replay(Tail(store), file_path, st)

\* txt_files under iter_files(".txt", "r+"): the next .txt file is rewritten;
\* after the last one apply_settings returns
TxtFiles ==
    /\ stage = "txt_files"
    /\ merge_exc = "none"
    /\ IF idx <= Len(txt_fs)
         THEN LET out == TxtRewritten(txt_fs[idx].path, txt_fs[idx].lines, csv)
              IN  /\ txt_fs' = [txt_fs EXCEPT ![idx].lines = out.content]
                  /\ IF out.exc = "none"
                       THEN /\ idx' = idx + 1
                            /\ UNCHANGED <<stage, merge_exc>>
                       ELSE /\ MergeRaise(out.exc)
                            /\ idx' = idx
         ELSE /\ stage' = StageAfter("txt_files")
              /\ idx' = 1
              /\ UNCHANGED <<txt_fs, merge_exc>>
    /\ UNCHANGED <<sct_fs, aux_fs, asr_fs, prf_fs, settings_prf, plugin_vfpc,
                   plugin_cdm, sct_file, before>>
    /\ UNCHANGED <<airacVars, pullVars, setupVars>>

MergeNext ==
    \/ GetSectorFile
    \/ AsrSectorFile
    \/ PrfFiles
    \/ TxtFiles

(***************************************************************************)
(* main, lines 43-47: pull, then apply_settings on the files pull left.    *)
(***************************************************************************)
\* the working trees of the runs: no change, or changes to UK/b.txt, to
\* UK/a.asr and UK/b.txt, to UK/g.txt
RunWorktrees == { <<>>, <<FileTxt>>, <<FileAsr, FileTxt>>, <<FileCsv>> }

\* the .txt files of the pack after pull
RunTxtInstalls == { <<TxtB, TxtG, TxtOld>>, <<TxtB, TxtG>> }

\* user_settings has returned, with the settings found in Bob's profile, and
\* pull is about to be called
RunInit ==
    /\ changed_files \in RunWorktrees
    /\ stage = "returned"
    /\ merge_exc = "none"
    /\ sct_fs = <<>>
    /\ aux_fs = {}
    /\ asr_fs = <<>>
    /\ prf_fs = <<>>
    /\ txt_fs = <<>>
    /\ \E m \in MergeProfiles :
           /\ m.found = <<PrfBob>>
           /\ settings_prf = m.data
           /\ plugin_vfpc = m.plugin_vfpc
           /\ plugin_cdm = m.plugin_cdm
    /\ sct_file = <<>>
    /\ idx = 0
    /\ before = [sct_fs |-> <<>>, aux_fs |-> {}, asr_fs |-> <<>>, prf_fs |-> <<>>,
                 txt_fs |-> <<>>]

\* line 46 of __main__.py: pull has returned, True or False, and
\* apply_settings is called on the pack as it is now
ApplyStart ==
    /\ pc = "returned"
    /\ stage = "returned"
    /\ stage' = "get_sector_file"
    /\ sct_fs' = <<SctCur>>
    /\ aux_fs' = AuxOf(SctCur)
    /\ asr_fs' = <<AsrPlain>>
    /\ prf_fs' = <<PrfFresh>>
    /\ txt_fs' \in RunTxtInstalls
    /\ before' = [sct_fs |-> sct_fs', aux_fs |-> aux_fs', asr_fs |-> asr_fs',
                  prf_fs |-> prf_fs', txt_fs |-> txt_fs']
    /\ UNCHANGED <<merge_exc, settings_prf, plugin_vfpc, plugin_cdm, sct_file, idx>>
    /\ UNCHANGED <<airacVars, pullVars, setupVars>>

RunNext ==
    \/ PullNext
    \/ ApplyStart
    \/ MergeNext

(***************************************************************************)
(* Specifications.                                                         *)
(***************************************************************************)
\* the cycle calculator under a running clock
InitAirac == AiracInit /\ PullIdle /\ MergeIdle /\ SetupIdle

SpecAirac == InitAirac /\ [][AiracNext]_vars

\* one call of Downloader.pull on any working tree
InitPull == AiracInit /\ PullInit /\ MergeIdle /\ SetupIdle

SpecPull == InitPull /\ [][PullNext]_vars

\* settings.csv as a pull may have left it when apply_settings is called
PullOver ==
    /\ folder_exists = TRUE
    /\ head = "detached"
    /\ changed_files = <<>>
    /\ tags = <<>>
    /\ csv \in RecordStores
    /\ pc = "idle"
    /\ file_idx = 0
    /\ line_idx = 0
    /\ file_diff = <<>>
    /\ break_flag = FALSE
    /\ ret = <<>>
    /\ exc = "none"
    /\ stashed = FALSE
    /\ pulled = FALSE
    /\ checked_out = "none"
    /\ review = <<>>
    /\ decisions = <<>>
    /\ completed = {}

\* one call of CurrentInstallation.apply_settings on any installation
InitMerge == AiracInit /\ PullOver /\ MergeInit /\ SetupIdle

SpecMerge == InitMerge /\ [][MergeNext]_vars

\* one call of CurrentInstallation.user_settings on any set of profiles
InitSettings == AiracInit /\ PullIdle /\ SettingsInit /\ SetupIdle

SpecSettings == InitSettings /\ [][SettingsNext]_vars

\* the start of main: check_requirements, then clone, on any machine
InitSetup == AiracInit /\ RepoInit /\ MergeIdle /\ SetupInit

SpecSetup == InitSetup /\ [][SetupNext]_vars

\* one run of main from the call of pull to the end of apply_settings
InitRun == AiracInit /\ PullInit /\ RunInit /\ SetupIdle

SpecRun == InitRun /\ [][RunNext]_vars


(***************************************************************************)
(* Properties of the cycle calculator.                                     *)
(***************************************************************************)
\* the fixed epoch and cycle length the properties speak of
BaseDate == Date(2019, 1, 2)

\* the cycle indices the clock's range reaches, and the next one
CycleRange == 0..((MaxDays \div 28) + 1)

\* cycleStartDate(n) = 2019-01-02 + (28*n + 1) days, and the day before it
CycleStartDate(n) == PlusDays(BaseDate, 28 * n + 1)

CycleStartStr == [n \in CycleRange |-> DateToStr(CycleStartDate(n))]

DayBeforeStr == [n \in CycleRange |-> DateToStr(PlusDays(CycleStartDate(n), -1))]

\* the call's date argument names the day the clock shows
OnClockDay == call.date_in \in {<<>>, DateToStr(today)}

\* q is floor(elapsed / 28), said without division
IsFloorOfElapsed(q) == 28 * q <= elapsed /\ elapsed < 28 * (q + 1)

\* C1: for every n >= 0, cycleIndex(cycleStartDate(n)) = n: _initialise,
\* given the string of the date 2019-01-02 + (28*n + 1) days, returns n.
C1_RoundTrip ==
    call.op = "_initialise" =>
        \A n \in CycleRange :
            call.date_in = CycleStartStr[n] =>
                outcome = "ok" /\ number_of_cycles = <<n>>

\* C1 witness: _initialise was called on the start date of a cycle that came
\* out of cycle(), and returned that cycle's index.
C1_Witness ==
    /\ call.op = "_initialise"
    /\ select_cycle # <<>>
    /\ call.date_in = DateToStr(select_cycle[1])
    /\ \E n \in CycleRange :
           n >= 57 /\ call.date_in = CycleStartStr[n] /\ number_of_cycles = <<n>>

\* C2: for every n >= 0, the day before a cycle start belongs to the
\* previous cycle: _initialise(cycleStartDate(n) - 1 day) returns n - 1.
C2_DayBeforeIsPreviousCycle ==
    call.op = "_initialise" =>
        \A n \in CycleRange :
            call.date_in = DayBeforeStr[n] =>
                outcome = "ok" /\ number_of_cycles = <<n - 1>>

\* C3: cycleIndex(d) is the integer floor(D / 28), D the whole days from
\* 2019-01-02 to d (also for d before the base date), and
\* cycleIndex(2023-06-01) = 57.
C3_FloorOfDays ==
    (call.op = "_initialise" /\ OnClockDay) =>
        /\ outcome = "ok"
        /\ Len(number_of_cycles) = 1
        /\ number_of_cycles[1] \in Int
        /\ IsFloorOfElapsed(number_of_cycles[1])
        /\ today = Date(2023, 6, 1) => number_of_cycles = <<57>>

\* C3 witness: _initialise("2023-06-01") returned 57.
C3_Witness ==
    /\ call.op = "_initialise"
    /\ call.date_in = <<"2", "0", "2", "3", "-", "0", "6", "-", "0", "1">>
    /\ elapsed = 1611
    /\ number_of_cycles = <<57>>

\* C4: cycle() returns 2019-01-02 + (28*n + 1) days for n = cycleIndex(d),
\* or n = cycleIndex(d) + 1 with next_cycle; cycleStartDate(0) is 2019-01-03;
\* the date for next_cycle is exactly 28 days after the one without.
C4_CycleStartDate ==
    (call.op = "cycle" /\ OnClockDay) =>
        /\ outcome = "ok"
        /\ Len(select_cycle) = 1
        /\ \E q \in {-2, -1} \cup CycleRange :
              /\ IsFloorOfElapsed(q)
              /\ DaysBetween(select_cycle[1], BaseDate)
                     = 28 * (q + (IF call.next_cycle THEN 1 ELSE 0)) + 1
              /\ (q = 0 /\ ~call.next_cycle) => select_cycle = <<Date(2019, 1, 3)>>
        /\ select_cycle[1].m \in 1..12
        /\ select_cycle[1].d \in 1..DaysInMonth(select_cycle[1].y, select_cycle[1].m)
        /\ DaysBetween(Cycle(TRUE, call.date_in), Cycle(FALSE, call.date_in)) = 28

\* C4 witness: cycle(next_cycle=True) returned the start of cycle 1,
\* 2019-01-31, while the clock stood in cycle 0.
C4_Witness ==
    /\ call.op = "cycle"
    /\ call.next_cycle
    /\ elapsed \in 0..27
    /\ select_cycle = <<Date(2019, 1, 31)>>

\* C5: _initialise or cycle given a string that is no ISO date ends in
\* ValueError and returns nothing; base_date and cycle_days stay as set.
C5_MalformedDate ==
    (call.op \in {"_initialise", "cycle"} /\ call.date_in \in Malformed) =>
        /\ outcome = "ValueError"
        /\ number_of_cycles = <<>>
        /\ call.op = "cycle" => select_cycle = <<>>
        /\ base_date = BaseDate
        /\ cycle_days = 28

\* C5 witness: _initialise("2021") ended in ValueError.
C5_Witness ==
    /\ call.op = "_initialise"
    /\ call.date_in = <<"2", "0", "2", "1">>
    /\ outcome = "ValueError"

\* C6: for a clock day on or after 2019-01-02, current_tag is YYYY/MM of
\* the date 2019-01-02 + (28*cycleIndex + 1) days, with no look-back, also
\* when that date is later than the clock day.
C6_CurrentTag ==
    (call.op = "current_tag" /\ elapsed >= 0) =>
        /\ Len(tag) = 7
        /\ tag[5] = "/"
        /\ \A i \in {1, 2, 3, 4, 6, 7} : tag[i] \in DigitSet
        /\ \E q \in CycleRange :
              /\ IsFloorOfElapsed(q)
              /\ ToInt(SubSeq(tag, 1, 4)) = CycleStartDate(q).y
              /\ ToInt(SubSeq(tag, 6, 7)) = CycleStartDate(q).m

\* C6 witness: on 2019-02-27, the last day before cycle 2 starts, the tag
\* is 2019/02, taken from the start date 2019-02-28 that lies a day ahead.
C6_Witness ==
    /\ call.op = "current_tag"
    /\ today = Date(2019, 2, 27)
    /\ select_cycle = <<Date(2019, 2, 28)>>
    /\ tag = <<"2", "0", "1", "9", "/", "0", "2">>

(***************************************************************************)
(* Properties of the review of local changes.                              *)
(***************************************************************************)
\* the diff line is an addition whose text starts with a letter
IsAddedAlpha(l) == Len(l) >= 2 /\ l[1] = "+" /\ l[2] \in Alpha

\* the diff line adds a SECTORFILE or SECTORTITLE declaration, or the
\* PLUGIN:vSMR:GndTrailsDots line
IsFixedExclusion(l) ==
    \/ StartsWith(l, <<"+", "S", "E", "C", "T", "O", "R", "F", "I", "L", "E">>)
    \/ StartsWith(l, <<"+", "S", "E", "C", "T", "O", "R", "T", "I", "T", "L", "E">>)
    \/ StartsWith(l, <<"+", "P", "L", "U", "G", "I", "N", ":", "v", "S", "M", "R", ":", "G", "n", "d", "T", "r", "a", "i", "l", "s", "D", "o", "t", "s">>)

\* the lines of changed file i that were shown, in the order shown
RECURSIVE ShownOf(_, _)
ShownOf(i, n) ==
    IF n = 0 THEN <<>>
    ELSE ShownOf(i, n - 1)
           \o (IF review[n].fidx = i THEN <<review[n].d_file>> ELSE <<>>)

\* the rows of the candidates accepted among the first n answers, in order
RECURSIVE AcceptedRows(_)
AcceptedRows(n) ==
    IF n = 0 THEN <<>>
    ELSE AcceptedRows(n - 1)
           \o (IF Upper(decisions[n]) = <<"Y">>
                 THEN <<changed_files[review[n].fidx].path \o <<",">>
                          \o Tail(review[n].d_file)>>
                 ELSE <<>>)

\* the loop over the changed files was entered
LoopEntered == file_idx >= 1

\* ... and left without an exception
LoopLeft == LoopEntered /\ pc \in {"stash", "tail", "returned"}

\* the positions of the candidate lines in the diff of changed file i
CandidatesOf(i) ==
    {l \in DOMAIN changed_files[i].diff : IsCandidate(changed_files[i].diff[l])}

\* changed file i is one whose diff is read and holds a candidate
HasCandidates(i) ==
    /\ IsReviewed(changed_files[i])
    /\ changed_files[i].diff_ok
    /\ CandidatesOf(i) # {}

Least(S) == CHOOSE x \in S : \A y \in S : x <= y

\* the candidate shown after entry e when the current file is left: the
\* first candidate of the first later file that has one
IsFirstOfNextFile(e, n) ==
    /\ n.fidx > e.fidx
    /\ n.fidx = Least({j \in DOMAIN changed_files : j > e.fidx /\ HasCandidates(j)})
    /\ n.lidx = Least(CandidatesOf(n.fidx))

\* C7: a line is shown (and so written to settings.csv) only if it begins
\* with one "+" followed by a letter, and never if it declares SECTORFILE,
\* SECTORTITLE or PLUGIN:vSMR:GndTrailsDots, whatever the answers; of the
\* added lines SECTORFILE:x, SomeSetting:1, SECTORTITLE:y exactly
\* SomeSetting:1 is shown.
C7_OnlyFilteredLinesShown ==
    /\ \A k \in DOMAIN review :
           IsAddedAlpha(review[k].d_file) /\ ~IsFixedExclusion(review[k].d_file)
    /\ LoopEntered =>
           /\ Len(csv) >= 1
           /\ \A r \in 2..Len(csv) :
                  \E k \in DOMAIN review :
                      csv[r] = changed_files[review[k].fidx].path \o <<",">>
                                  \o Tail(review[k].d_file)
    /\ \A i \in completed :
           changed_files[i] = FileAsr =>
               ShownOf(i, Len(review)) = <<<<"+", "S", "o", "m", "e", "S", "e", "t", "t", "i", "n", "g", ":", "1">>>>

\* C7 witness: the diff of UK/a.asr was read to its end, SomeSetting:1 was
\* shown and accepted, and settings.csv holds that one row.
C7_Witness ==
    /\ pc = "returned"
    /\ changed_files = <<FileAsr>>
    /\ completed = {1}
    /\ Len(review) = 1
    /\ Upper(decisions[1]) = <<"Y">>
    /\ csv = <<CsvHeader, <<"U", "K", "/", "a", ".", "a", "s", "r", ",", "S", "o", "m", "e", "S", "e", "t", "t", "i", "n", "g", ":", "1">>>>

\* C8: every added line that starts with a letter and is no SECTORFILE
\* declaration, no SECTORTITLE declaration and not the
\* PLUGIN:vSMR:GndTrailsDots line is shown to the user, when the file's diff
\* was read to its end (no skip): the exclude filter removes that fixed set
\* only.
C8_EveryEligibleLineShown ==
    \A i \in completed :
        \A l \in DOMAIN changed_files[i].diff :
            (/\ IsAddedAlpha(changed_files[i].diff[l])
             /\ ~IsFixedExclusion(changed_files[i].diff[l]))
                => \E k \in DOMAIN review : review[k].fidx = i /\ review[k].lidx = l

\* C9: after an accept or a reject (any answer but y, s, a is a reject) the
\* next candidate of the same file is shown; after a skip-file no further
\* candidate of that file is shown or written, the rows accepted so far stay
\* in settings.csv, and the review goes on with the next changed file.
C9_DecisionProtocol ==
    /\ \A k \in 1..(Len(review) - 1) :
           LET e == review[k]
               n == review[k + 1]
               later == {l \in CandidatesOf(e.fidx) : l > e.lidx}
           IN  IF Upper(decisions[k]) \notin {<<"S">>, <<"A">>} /\ later # {}
                 THEN n.fidx = e.fidx /\ n.lidx = Least(later)
                 ELSE IsFirstOfNextFile(e, n)
    /\ LoopEntered =>
           csv = <<CsvHeader>> \o AcceptedRows(Len(decisions))
    /\ (LoopLeft /\ \A k \in DOMAIN decisions : Upper(decisions[k]) # <<"A">>) =>
           /\ \A j \in DOMAIN changed_files :
                  HasCandidates(j) =>
                      \E k \in DOMAIN review :
                          review[k].fidx = j /\ review[k].lidx = Least(CandidatesOf(j))
           /\ \A k \in DOMAIN decisions :
                  Upper(decisions[k]) # <<"S">> =>
                      \A l \in CandidatesOf(review[k].fidx) :
                          l > review[k].lidx =>
                              k < Len(review) /\ review[k + 1].fidx = review[k].fidx

\* C9 witness: Alpha:1 of UK/b.txt was accepted, at Beta:2 the file was
\* skipped (Gamma:3 was never shown), the first Delta:4 of UK/e.asr was
\* shown next and refused with "yes", the second one refused with "n"; the
\* accepted row is still there.
C9_Witness ==
    /\ pc = "returned"
    /\ changed_files = <<FileTxt, FileSmr>>
    /\ decisions = <<<<"y">>, <<"s">>, <<"y", "e", "s">>, <<"n">>>>
    /\ Len(review) = 4
    /\ review[2].fidx = 1 /\ review[2].lidx = 3
    /\ review[3].fidx = 2
    /\ csv = <<CsvHeader, <<"U", "K", "/", "b", ".", "t", "x", "t", ",", "A", "l", "p", "h", "a", ":", "1">>>>

\* C10: after a skip-all no candidate of the current or of a later file is
\* shown, and settings.csv holds exactly the rows accepted before it.
C10_SkipAll ==
    \A k \in DOMAIN decisions :
        Upper(decisions[k]) = <<"A">> =>
            /\ Len(review) = k
            /\ pc # "prompt"
            /\ csv = <<CsvHeader>> \o AcceptedRows(k - 1)

\* C10 witness: Alpha:1 of UK/b.txt was accepted and skip-all was answered
\* at Beta:2, before UK/e.asr was looked at; pull has ended and settings.csv
\* holds the header and the one accepted row.
C10_Witness ==
    /\ pc = "returned"
    /\ changed_files = <<FileTxt, FileSmr>>
    /\ decisions = <<<<"y">>, <<"a">>>>
    /\ Len(review) = 2
    /\ csv = <<CsvHeader, <<"U", "K", "/", "b", ".", "t", "x", "t", ",", "A", "l", "p", "h", "a", ":", "1">>>>

\* C11: the rows of settings.csv are in diff scan order (file order, then
\* line order within the diff), and no two rows are equal: a (file, line)
\* pair is written once even when the diff adds the same line twice and it
\* is accepted both times.
C11_OrderedNoDuplicates ==
    LoopEntered =>
        /\ \A j, k \in DOMAIN review :
               j < k =>
                   \/ review[j].fidx < review[k].fidx
                   \/ /\ review[j].fidx = review[k].fidx
                      /\ review[j].lidx < review[k].lidx
        /\ Len(decisions) = Len(review) =>
               csv = <<CsvHeader>> \o AcceptedRows(Len(review))
        /\ \A r1, r2 \in 2..Len(csv) : r1 # r2 => csv[r1] # csv[r2]

\* C12: when the diff of a changed file cannot be computed (no reference tag,
\* or git diff against the tag fails for the file), the file is skipped and
\* the loop goes on: pull never ends with an exception before it reaches the
\* repository update.
C12_DiffFailureSkipsFile ==
    ~(pc = "raised" /\ ~pulled)

(***************************************************************************)
(* Properties of apply_settings.                                           *)
(***************************************************************************)
\* the .asr files asr_sector_file has run on
AsrProcessed ==
    IF stage = "asr_sector_file" THEN 1..(idx - 1)
    ELSE IF stage \in {"prf_files", "txt_files", "done"} THEN DOMAIN asr_fs
    ELSE {}

\* the line declares the sector file or the sector title
IsSectorLine(line) ==
    \/ StartsWith(line, <<"S", "E", "C", "T", "O", "R", "F", "I", "L", "E", ":">>)
    \/ StartsWith(line, <<"S", "E", "C", "T", "O", "R", "T", "I", "T", "L", "E", ":">>)

\* .asr file i holds more than its old lines with the substitutions made
AsrAppended(i) ==
    asr_fs[i].lines # [j \in DOMAIN before.asr_fs[i].lines |->
                          AsrContent(before.asr_fs[i].lines[j])]

\* C13: the sector rewrite of an .asr file is idempotent: run again with
\* the same sector file on a file it has rewritten, it leaves the file as
\* it is.
C13_SectorRewriteIdempotent ==
    \A i \in AsrProcessed : AsrRewritten(asr_fs[i].lines) = asr_fs[i].lines

\* C14: the SECTORFILE and SECTORTITLE lines are appended to an .asr file
\* exactly when no line of the file as it was began with SECTORFILE: or
\* SECTORTITLE:.
C14_AppendIffNoSectorLine ==
    \A i \in AsrProcessed :
        AsrAppended(i) <=>
            ~\E j \in DOMAIN before.asr_fs[i].lines :
                  IsSectorLine(before.asr_fs[i].lines[j])

\* C17: when the installation holds no .sct file or more than one,
\* apply_settings goes no further than the search (it ends with an error),
\* no .asr file is changed and no sector data file is removed or added.
C17_AmbiguousSectorFileFails ==
    Len(before.sct_fs) # 1 =>
        /\ stage = "get_sector_file"
        /\ asr_fs = before.asr_fs
        /\ sct_fs = before.sct_fs
        /\ aux_fs = before.aux_fs

\* the .prf files prf_files has run on to its end
PrfProcessed ==
    IF stage = "prf_files" THEN 1..(idx - 1)
    ELSE IF stage \in {"txt_files", "done"} THEN DOMAIN prf_fs
    ELSE {}

\* what .prf file i holds after the lines it had
PrfAppended(i) ==
    SubSeq(prf_fs[i].lines, Len(before.prf_fs[i].lines) + 1, Len(prf_fs[i].lines))

\* the line declares a plugin: Plugins<tab>Plugin<number><tab>...
IsPluginDecl(line) ==
    /\ StartsWith(line, <<"P", "l", "u", "g", "i", "n", "s", "\t", "P", "l", "u", "g", "i", "n">>)
    /\ LET run == DigitRun(SubSeq(line, 15, Len(line)), Len(line))
       IN  Len(run) >= 1 /\ Len(line) > 14 + Len(run) /\ line[15 + Len(run)] = "\t"

PluginNumber(line) == ToInt(DigitRun(SubSeq(line, 15, Len(line)), Len(line)))

\* the numbers of the plugin lines among the lines given
PluginNumbers(lines) ==
    {PluginNumber(lines[l]) : l \in {j \in DOMAIN lines : IsPluginDecl(lines[j])}}

HighestSuffix(lines) ==
    CHOOSE n \in PluginNumbers(lines) : \A m \in PluginNumbers(lines) : m <= n

\* C15: for a profile that had plugin lines, the highest of them numbered N,
\* and k accepted plugins, the plugin lines appended are Plugin N+1 to
\* Plugin N+k with the accepted paths in order, and none of these numbers
\* is the number of a plugin line the file had.
C15_PluginNumbering ==
    \A i \in PrfProcessed :
        (/\ PluginNumbers(before.prf_fs[i].lines) # {}
         /\ settings_prf["plugins"].t = "list"
         /\ settings_prf["plugins"].list # <<NoPlugins>>) =>
            LET N        == HighestSuffix(before.prf_fs[i].lines)
                accepted == settings_prf["plugins"].list
                appended == SelectSeq(PrfAppended(i), IsPluginDecl)
            IN  /\ appended =
                     [j \in DOMAIN accepted |->
                        <<"P", "l", "u", "g", "i", "n", "s", "\t", "P", "l", "u", "g", "i", "n">>
                            \o IntToStr(N + j) \o <<"\t">> \o accepted[j] \o <<"\n">>]
                /\ \A j \in DOMAIN appended :
                       PluginNumber(appended[j]) \notin PluginNumbers(before.prf_fs[i].lines)

\* the lines among those given that set the key's TeamSpeakVccs entry
VccsLines(lines, key) ==
    SelectSeq(lines, LAMBDA line : StartsWith(line, Patterns[key].prefix))

AudioKeys ==
    {"vccs_playback_mode", "vccs_playback_device", "vccs_capture_mode",
     "vccs_capture_device"}

\* C16: to every profile the four audio lines are appended all or none,
\* and all only when the four audio settings are all set (once the profile
\* is done they are appended exactly then); the G2A and the G2G line is
\* appended only when its own setting is set, and then with its value.
C16_AudioAllOrNone ==
    \A i \in DOMAIN prf_fs :
        LET app  == PrfAppended(i)
            full == \A key \in AudioKeys : settings_prf[key] # NoneValue
        IN  /\ \A key \in AudioKeys :
                   VccsLines(app, key) =
                       IF i \in PrfProcessed /\ full
                         THEN <<Patterns[key].prefix \o settings_prf[key].str \o <<"\n">>>>
                         ELSE <<>>
            /\ \A key \in {"vccs_ptt_g2a", "vccs_ptt_g2g"} :
                   VccsLines(app, key) =
                       IF i \in PrfProcessed /\ settings_prf[key] # NoneValue
                         THEN <<Patterns[key].prefix \o settings_prf[key].str \o <<"\n">>>>
                         ELSE <<>>

\* C16 witness: three of the four audio settings are set (no capture
\* device), the ground-to-ground key is set and the ground-to-air key is
\* not; a profile was rewritten with the session lines and the G2G line
\* appended and no audio line.
C16_Witness ==
    /\ stage = "done"
    /\ merge_exc = "none"
    /\ settings_prf["vccs_playback_mode"] # NoneValue
    /\ settings_prf["vccs_playback_device"] # NoneValue
    /\ settings_prf["vccs_capture_mode"] # NoneValue
    /\ settings_prf["vccs_capture_device"] = NoneValue
    /\ settings_prf["vccs_ptt_g2a"] = NoneValue
    /\ settings_prf["vccs_ptt_g2g"] # NoneValue
    /\ \E i \in DOMAIN prf_fs :
           /\ Len(PrfAppended(i)) >= 9
           /\ \A key \in AudioKeys : VccsLines(PrfAppended(i), key) = <<>>
           /\ VccsLines(PrfAppended(i), "vccs_ptt_g2g") # <<>>

\* the .txt files txt_files has run on to its end
TxtProcessed ==
    IF stage = "txt_files" THEN 1..(idx - 1)
    ELSE IF stage = "done" THEN DOMAIN txt_fs
    ELSE {}

\* the stored line gives a search string: it has two colon tokens or more
HasKey(row) ==
    /\ CsvFields(row).data # <<>>
    /\ Len(Split(CsvFields(row).data[1], ":")) >= 2

\* the record store without the rows that give no search string
WithoutMalformed(store) ==
    IF store = <<>> THEN <<>>
    ELSE <<Head(store)>> \o SelectSeq(Tail(store), HasKey)

\* C18: a record whose stored line has fewer than two colon tokens is
\* skipped: no exception leaves txt_files because of it, and every .txt file
\* gone through is what it would be without such records in settings.csv.
C18_MalformedRecordSkipped ==
    /\ merge_exc # "UnboundLocalError"
    /\ \A i \in TxtProcessed :
           txt_fs[i].lines =
               TxtRewritten(txt_fs[i].path, before.txt_fs[i].lines,
                            WithoutMalformed(csv)).content

\* C20: no error on a .txt file or on settings.csv ends the stage: txt_files
\* goes on to the next file and apply_settings completes.
C20_TxtErrorSkipsFile ==
    ~(stage = "txt_files" /\ merge_exc # "none")

(***************************************************************************)
(* Properties of user_settings.                                            *)
(***************************************************************************)
\* C19: when user_settings has returned, realname, certificate, password
\* and rating are each one string: not None and not a set of values found.
C19_IdentityResolved ==
    stage = "returned" =>
        \A key \in {"realname", "certificate", "password", "rating"} :
            settings_prf[key].t = "str"

(***************************************************************************)
(* Properties of check_requirements and clone.                             *)
(***************************************************************************)
\* the one clone_from call clone may make
CloneArgs == [url |-> RepoUrl, to_path |-> GitPath, branch |-> branch]

\* C21: when clone has returned on a folder that was there, nothing was
\* cloned, no tag list read and nothing checked out, and it returned True;
\* on a folder that was not there it cloned once with (repo_url, git_path,
\* branch), read the tag list once, checked out the last tag of that list,
\* and returned False.
C21_CloneIfAbsent ==
    /\ Len(clone_calls) <= 1
    /\ cloned = <<TRUE>> => folder_exists /\ clone_calls = <<>>
    /\ main_pc = "user_settings" =>
           IF clone_calls = <<>>
             THEN cloned = <<TRUE>> /\ tag_reads = 0 /\ checkouts = <<>>
             ELSE /\ cloned = <<FALSE>>
                  /\ clone_calls = <<CloneArgs>>
                  /\ tag_reads = 1
                  /\ checkouts = <<tags[Len(tags)]>>
                  /\ checked_out = tags[Len(tags)]

\* C21 witness: the branch dev was cloned into a folder that was not there,
\* and the later of the two tags was checked out.
C21_Witness ==
    /\ main_pc = "user_settings"
    /\ cloned = <<FALSE>>
    /\ branch = "dev"
    /\ tags = <<"2023/04", "2023/05">>
    /\ checkouts = <<"2023/05">>

\* git --version ran when check_requirements was called
GitWasInstalled == git_installed /\ installs = 0

\* the four cases of check_requirements once it was called
RequirementCases ==
    /\ GitWasInstalled => requirements = <<TRUE>> /\ git_consent = <<>>
    /\ git_consent # <<>> =>
           IF Upper(git_consent[1]) = <<"Y">>
             THEN /\ installs = 1
                  /\ requirements = <<git_installed>>
             ELSE /\ installs = 0
                  /\ requirements = <<FALSE>>

\* C22 as stated: after check_requirements, with git installed True was
\* returned and nothing was asked; without git, True was returned on
\* consent and a successful install, False when the user declined (and
\* install_git never ran) or when the install failed.
C22_RequirementCases ==
    main_pc # "check_requirements" =>
        /\ RequirementCases
        /\ GitWasInstalled \/ git_consent # <<>>

\* C22 amended: the same, when Euroscope().compare() passes; when it does
\* not, ValueError leaves check_requirements before git is looked for.
C22_RequirementCasesWithEuroscope ==
    main_pc # "check_requirements" =>
        IF es_compatible
          THEN RequirementCases /\ (GitWasInstalled \/ git_consent # <<>>)
          ELSE /\ main_exc = "ValueError"
               /\ requirements = <<>>
               /\ git_consent = <<>>
               /\ installs = 0

\* C22 witness: git was absent, the user answered Y, install_git ran once and
\* succeeded, and True was returned.
C22_Witness ==
    /\ es_compatible
    /\ git_consent = << <<"Y">> >>
    /\ installs = 1
    /\ git_installed
    /\ requirements = <<TRUE>>

\* the plugin paths the user accepted in user_settings
AcceptedPlugins ==
    IF settings_prf["plugins"].t = "list" /\ settings_prf["plugins"].list # <<NoPlugins>>
      THEN settings_prf["plugins"].list
      ELSE <<>>

\* C29: every Plugin line appended to a profile prf_files has gone through
\* ends with a plugin path the user accepted, so none is appended when none
\* was accepted or detected; and prf_files does not fail for want of a plugin
\* list.
C29_OnlyAcceptedPlugins ==
    /\ \A i \in PrfProcessed :
           LET appended == SelectSeq(PrfAppended(i), IsPluginDecl)
           IN  \A k \in DOMAIN appended :
                   \E j \in DOMAIN AcceptedPlugins :
                       LET tail == <<"\t">> \o AcceptedPlugins[j] \o <<"\n">>
                       IN  /\ Len(appended[k]) >= Len(tail)
                           /\ SubSeq(appended[k], Len(appended[k]) - Len(tail) + 1,
                                     Len(appended[k])) = tail
    /\ ~(stage = "prf_files" /\ merge_exc = "TypeError")


(***************************************************************************)
(* Properties of the replay of settings.csv.                               *)
(***************************************************************************)
\* the lines of the i-th .txt file when the replay of settings.csv begins
BeforeReplay(i) ==
    DlPass(txt_fs[i].path,
           ScreenPass(txt_fs[i].path, TxtOpened(before.txt_fs[i].lines))).content

\* the search strings of the rows of settings.csv that match the i-th file
MatchingKeys(i) ==
    {SearchString(CsvFields(csv[k]).data[1], <<>>) :
        k \in {j \in 2..Len(csv) : /\ csv[j] # <<>>
                                   /\ RowMatches(csv[j], txt_fs[i].path)
                                   /\ CsvFields(csv[j]).data # <<>>}}

\* C23: a .txt file the stage has gone through holds as many lines as when
\* the replay began, in the same order, and a line differs only if it starts
\* with the key of a row that matches the file.
C23_ReplayKeepsLines ==
    \A i \in TxtProcessed :
        /\ Len(txt_fs[i].lines) = Len(BeforeReplay(i))
        /\ \A l \in DOMAIN BeforeReplay(i) :
               txt_fs[i].lines[l] # BeforeReplay(i)[l] =>
                   \E key \in MatchingKeys(i) :
                       /\ key # <<>>
                       /\ StartsWith(BeforeReplay(i)[l], key[1] \o <<":">>)

\* C25: in a *_APP_DL.txt file the stage has gone through, every line that
\* began with m_Column:ASSR is the fixed ASSR column line and nothing more,
\* and a line that began with neither m_Column:ASSR nor END is as it was.
C25_AssrLineReplaced ==
    \A i \in TxtProcessed :
        MatchesName(txt_fs[i].path, <<"_", "A", "P", "P", "_", "D", "L">>, <<"t", "x", "t">>) =>
            \A l \in DOMAIN before.txt_fs[i].lines :
                LET old == before.txt_fs[i].lines[l]
                IN  /\ l <= Len(txt_fs[i].lines)
                    /\ StartsWith(old, <<"m", "_", "C", "o", "l", "u", "m", "n", ":", "A", "S", "S", "R">>) =>
                           txt_fs[i].lines[l] = SetSquawkUkcp \o <<"\n">>
                    /\ (~StartsWith(old, <<"m", "_", "C", "o", "l", "u", "m", "n", ":", "A", "S", "S", "R">>) /\ ~StartsWith(old, <<"E", "N", "D">>)) =>
                           txt_fs[i].lines[l] = old

\* the files of the sequence fs from position k on are as they were in was
UntouchedFrom(fs, was, k) ==
    /\ Len(fs) = Len(was)
    /\ \A j \in DOMAIN fs : j >= k => fs[j] = was[j]

\* the position of the first file the running stage has not opened: the one
\* it is at, or the one after it when an exception has left the stage there
NextUntouched == IF merge_exc = "none" THEN idx ELSE idx + 1

\* C26: while the sector file is looked for no .asr, .prf or .txt file has
\* changed; while the .asr files are rewritten no .prf and no .txt file has
\* changed; while the .prf files are rewritten every .asr file has been gone
\* through and no .txt file has changed; while the .txt files are rewritten
\* the .prf files stay as prf_files left them; and within a stage no file
\* has changed that the stage has not reached yet.
C26_StageOrder ==
    /\ stage = "get_sector_file" =>
           asr_fs = before.asr_fs /\ prf_fs = before.prf_fs /\ txt_fs = before.txt_fs
    /\ stage = "asr_sector_file" =>
           /\ UntouchedFrom(asr_fs, before.asr_fs, NextUntouched)
           /\ prf_fs = before.prf_fs
           /\ txt_fs = before.txt_fs
    /\ stage = "prf_files" =>
           /\ \A j \in DOMAIN asr_fs : asr_fs[j].lines = AsrRewritten(before.asr_fs[j].lines)
           /\ UntouchedFrom(prf_fs, before.prf_fs, NextUntouched)
           /\ txt_fs = before.txt_fs
    /\ stage \in {"txt_files", "done"} =>
           /\ \A j \in DOMAIN asr_fs : asr_fs[j].lines = AsrRewritten(before.asr_fs[j].lines)
           /\ \A j \in DOMAIN prf_fs : prf_fs[j].lines = PrfRewritten(before.prf_fs[j].lines).lines
           /\ stage = "txt_files" => UntouchedFrom(txt_fs, before.txt_fs, NextUntouched)

\* C26 witness: the run is at the second of two .txt files; the first one was
\* rewritten, and the .asr and the .prf files were rewritten before it.
C26_Witness ==
    /\ stage = "txt_files"
    /\ idx = 2
    /\ Len(txt_fs) = 2
    /\ txt_fs[1] # before.txt_fs[1]
    /\ asr_fs # <<>> /\ asr_fs # before.asr_fs
    /\ prf_fs # before.prf_fs

(***************************************************************************)
(* Properties of a whole run.                                              *)
(***************************************************************************)
\* C27: when pull has returned after the checkout of the branch failed on
\* local changes, which it reviewed, the changes are stashed, the pull was
\* made, the last tag of the tag list is checked out and True was returned.
C27_PullAfterStash ==
    (pc = "returned" /\ LoopEntered) =>
        /\ stashed
        /\ pulled
        /\ tags # <<>> /\ checked_out = tags[Len(tags)]
        /\ ret = <<TRUE>>

\* the positions of the answers that accepted a candidate
AcceptedAt == {k \in DOMAIN decisions : Upper(decisions[k]) = <<"Y">>}

\* the file the k-th candidate shown was harvested from, and its line
HarvestedFrom(k) == changed_files[review[k].fidx].path

HarvestedLine(k) == Tail(review[k].d_file)

\* the .asr, .prf and .txt files of the pack
PackFiles == asr_fs \o prf_fs \o txt_fs

\* C24: the .txt files the merge has gone through are what the replay of the
\* records accepted in this run makes of them; in a run in which pull
\* reviewed nothing they are what they are with an empty record store.
C24_OnlyThisRunReplayed ==
    \A i \in TxtProcessed :
        txt_fs[i].lines =
            TxtRewritten(txt_fs[i].path, before.txt_fs[i].lines,
                         <<CsvHeader>> \o AcceptedRows(Len(decisions))).content

\* C28: when apply_settings has ended, every line the user accepted stands
\* in the file of the pack it was harvested from.
C28_AcceptedReapplied ==
    stage = "done" =>
        \A k \in AcceptedAt :
            \E i \in DOMAIN PackFiles :
                /\ Contains(PackFiles[i].path, Replace(HarvestedFrom(k), "/", <<"\\">>))
                /\ \E l \in DOMAIN PackFiles[i].lines :
                       PackFiles[i].lines[l] \in {HarvestedLine(k),
                                                  HarvestedLine(k) \o <<"\n">>}

\* C30: when txt_files reads settings.csv, it holds for every accepted
\* candidate a row whose filepath is the file and whose data is the line.
C30_RecordRoundTrip ==
    stage = "txt_files" =>
        \A k \in AcceptedAt :
            \E j \in 2..Len(csv) :
                /\ CsvFields(csv[j]).filepath = HarvestedFrom(k)
                /\ CsvFields(csv[j]).data = <<HarvestedLine(k)>>

====
